---------------------------- MODULE Spec2Model ----------------------------
(***************************************************************************)
(* EduOpportunity Bot: the relational store (users, platform bindings,     *)
(* preferences, opportunities, subscriptions, notifications) and the       *)
(* service-layer operations on it: OpportunityService (catalog, search,    *)
(* recommendations, subscriptions), AdminService (approve / reject),       *)
(* UserService (users, bindings, preferences) and NotificationService      *)
(* (alert fan-out, welcome message); the channel objects (start, stop,     *)
(* send_message), the BotManager and the webhook endpoints.                *)
(*                                                                         *)
(* Every service call is one request on one AsyncSession: the call runs    *)
(* to its return (or to the exception it raises) as one action.  `last`    *)
(* holds the latest call, its arguments and its outcome; `sends` holds     *)
(* the channel send_message invocations that call made.                    *)
(***************************************************************************)
EXTENDS Integers, Sequences, FiniteSets, TLC

VARIABLES
    users,            \* table users: row id = index
    user_platforms,   \* table user_platforms (Platform Bindings)
    user_preferences, \* table user_preferences (Preference Models)
    opportunities,    \* table opportunities
    subscriptions,    \* table subscriptions
    notifications,    \* table notifications (the Delivery Log)
    sends,            \* channel send_message invocations of the latest call
    deleted,          \* ids for which delete_opportunity has succeeded
    reactivated,      \* ids set active again by a later approve / update
    last,             \* the latest service call and its outcome
    requests,         \* subscribe_user requests between their SELECT and INSERT
    settings,         \* core.config.settings: the channel credentials
    channels,         \* the channel (bot) object of each platform
    bot_manager       \* utils.bot_manager.bot_manager: its bots and tasks

\* What lives outside the store and the latest call: requests in flight,
\* the configuration, the channel objects and the bot manager.
runtime == <<requests, settings, channels, bot_manager>>

vars == <<users, user_platforms, user_preferences, opportunities,
          subscriptions, notifications, sends, deleted, reactivated, last,
          runtime>>

-----------------------------------------------------------------------------
(* Bounds of the model *)

MaxUsers == 2
MaxOpps == 2
MaxPlatforms == 2
MaxSubs == 2
MaxNotifications == 2
MaxBindings == 3

-----------------------------------------------------------------------------
(* Python values *)

\* Optional[T]: None is the empty tuple, a present value v is <<v>>.
None == <<>>
Some(v) == <<v>>

\* Python truthiness of an Optional[str] / Optional[List]: None, "" and []
\* are all falsy.
Truthy(x) == x # None /\ x[1] # <<>>

\* str.lower() on one character (strings are tuples of characters).
LowerChar(c) ==
    CASE c = "A" -> "a" [] c = "B" -> "b" [] c = "C" -> "c" [] c = "D" -> "d"
      [] c = "E" -> "e" [] c = "F" -> "f" [] c = "G" -> "g" [] c = "H" -> "h"
      [] c = "I" -> "i" [] c = "J" -> "j" [] c = "K" -> "k" [] c = "L" -> "l"
      [] c = "M" -> "m" [] c = "N" -> "n" [] c = "O" -> "o" [] c = "P" -> "p"
      [] c = "Q" -> "q" [] c = "R" -> "r" [] c = "S" -> "s" [] c = "T" -> "t"
      [] c = "U" -> "u" [] c = "V" -> "v" [] c = "W" -> "w" [] c = "X" -> "x"
      [] c = "Y" -> "y" [] c = "Z" -> "z" [] OTHER -> c

Lower(s) == [i \in 1..Len(s) |-> LowerChar(s[i])]

\* `needle in text` for strings.
Contains(text, needle) ==
    \E i \in 0..(Len(text) - Len(needle)) :
        SubSeq(text, i + 1, i + Len(needle)) = needle

\* SQL LIKE on text[i..] against pattern[j..]: % stands for any run of
\* characters, _ for any one character, backslash makes the next pattern
\* character literal.
RECURSIVE LikeMatch(_, _, _, _)
LikeMatch(text, i, pattern, j) ==
    IF j > Len(pattern) THEN i > Len(text)
    ELSE IF pattern[j] = "%"
    THEN \/ LikeMatch(text, i, pattern, j + 1)
         \/ i <= Len(text) /\ LikeMatch(text, i + 1, pattern, j)
    ELSE IF pattern[j] = "\\" /\ j < Len(pattern)
    THEN /\ i <= Len(text)
         /\ text[i] = pattern[j + 1]
         /\ LikeMatch(text, i + 1, pattern, j + 2)
    ELSE /\ i <= Len(text)
         /\ pattern[j] = "_" \/ text[i] = pattern[j]
         /\ LikeMatch(text, i + 1, pattern, j + 1)

\* Mutant: like for ilike (case-sensitive substring).
like(column, pattern) ==
    /\ column # None
    /\ Contains(column[1], pattern)

\* column.ilike(f"%{pattern}%"): the interpolated text is sent as an ILIKE
\* pattern as it stands, matched without regard to case; a NULL column
\* never matches.
ilike(column, pattern) ==
    /\ column # None
    /\ LikeMatch(Lower(column[1]), 1, Lower(<<"%">> \o pattern \o <<"%">>), 1)

\* JSON list column .contains([tag]): the list holds the tag (exact match).
contains(tags, tag) == \E i \in 1..Len(tags) : tags[i] = tag

Take(s, n) == SubSeq(s, 1, IF Len(s) < n THEN Len(s) ELSE n)

Range(s) == {s[i] : i \in 1..Len(s)}

\* [row.id for row in rows]
Ids(rows) == [i \in 1..Len(rows) |-> rows[i].id]

-----------------------------------------------------------------------------
(* Request payloads the model draws from *)

s_ai == <<"a", "i">>
s_AI_grant == <<"A", "I", " ", "g", "r", "a", "n", "t">>
s_math == <<"m", "a", "t", "h">>
s_bio == <<"b", "i", "o">>
s_Art == <<"A", "r", "t">>
s_BIO_lab == <<"B", "I", "O", " ", "l", "a", "b">>
s_bio_ai == <<"b", "i", "o", " ", "a", "i">>
s_uni == <<"u", "n", "i">>
s_boston == <<"b", "o", "s", "t", "o", "n">>
s_Boston_Area == <<"B", "o", "s", "t", "o", "n", " ", "A", "r", "e", "a">>
s_Paris == <<"P", "a", "r", "i", "s">>
s_en == <<"e", "n">>
s_a_ == <<"a", "_">>

\* OpportunityCreate bodies (schemas/opportunity.py OpportunityBase).
OppGrant ==
    [title |-> s_AI_grant, description |-> s_math,
     opportunity_type |-> "scholarship", organization |-> s_uni,
     url |-> None, deadline |-> None, location |-> None, language |-> s_en,
     tags |-> <<"AI", "Math">>]

OppCourse ==
    [title |-> s_Art, description |-> s_BIO_lab,
     opportunity_type |-> "learning_resource", organization |-> s_uni,
     url |-> None, deadline |-> None, location |-> Some(s_Boston_Area),
     language |-> s_en, tags |-> <<"Bio">>]

OppEvent ==
    [title |-> s_bio_ai, description |-> s_math,
     opportunity_type |-> "event", organization |-> s_uni,
     url |-> None, deadline |-> None, location |-> Some(s_Paris),
     language |-> s_en, tags |-> <<"AI", "Bio">>]

OpportunityCreate == {OppGrant, OppCourse, OppEvent}

\* OpportunityUpdate bodies after model_dump(exclude_unset=True): the
\* fields the request set, as (field, value) pairs.
OpportunityUpdate ==
    { <<>>,
      << <<"is_active", TRUE>> >>,
      << <<"is_active", FALSE>> >>,
      << <<"language", s_en>> >> }

\* UserPreferencesCreate / UserPreferencesUpdate bodies.
PrefsNone == [interests |-> <<>>, field_of_study |-> None, location |-> None]
PrefsAI == [interests |-> <<"AI">>, field_of_study |-> None, location |-> None]
PrefsAIBio ==
    [interests |-> <<"AI">>, field_of_study |-> Some(s_bio), location |-> None]
PrefsBoston ==
    [interests |-> <<>>, field_of_study |-> None, location |-> Some(s_boston)]

UserPreferencesCreate == {PrefsNone, PrefsAI, PrefsAIBio, PrefsBoston}

\* UserPreferencesUpdate bodies after model_dump(exclude_unset=True): the
\* fields the request set, as (field, value) pairs.
UserPreferencesUpdate ==
    { <<>>,
      << <<"interests", <<"Bio">>>> >>,
      << <<"location", Some(s_boston)>>, <<"field_of_study", None>> >> }

\* OpportunitySearch filters (limit defaults to 20, offset to 0).
NoFilter ==
    [query |-> None, opportunity_type |-> None, tags |-> None,
     location |-> None, language |-> None, limit |-> 20, offset |-> 0]

OpportunitySearch ==
    { NoFilter,
      [NoFilter EXCEPT !.query = Some(s_ai)],
      [NoFilter EXCEPT !.query = Some(s_a_)],
      [NoFilter EXCEPT !.tags = Some(<<"Bio", "Math">>)],
      [NoFilter EXCEPT !.location = Some(s_boston)],
      [NoFilter EXCEPT !.opportunity_type = Some("event"),
                       !.language = Some(s_en)],
      [NoFilter EXCEPT !.limit = 1, !.offset = 1] }

\* limit arguments of get_user_recommendations (the endpoint admits 1..50).
Limits == {1, 10}

Platforms == {"telegram", "discord", "whatsapp"}

\* The credential fields of Settings; each defaults to "".
SettingNames ==
    {"TELEGRAM_BOT_TOKEN", "DISCORD_BOT_TOKEN", "WHATSAPP_ACCOUNT_SID",
     "WHATSAPP_AUTH_TOKEN", "WHATSAPP_PHONE_NUMBER"}
Addresses == {"100", "200"}

\* Optional[List[int]] user_ids of send_opportunity_alert.
UserIdLists == {None, Some(<<>>), Some(<<1>>), Some(<<2>>), Some(<<1, 2>>)}

-----------------------------------------------------------------------------
(* The store after the schema is created: every table empty *)

NoCall == [op |-> "none", args |-> <<>>, ret |-> None, exc |-> "None",
           targets |-> None, pre_notifications |-> 0,
           pre_subscriptions |-> <<>>,
           pre_channels |-> [p \in Platforms |->
                                [platform |-> p, session |-> None]]]

EmptyStore ==
    /\ users = <<>>
    /\ user_platforms = <<>>
    /\ user_preferences = <<>>
    /\ opportunities = <<>>
    /\ subscriptions = <<>>
    /\ notifications = <<>>
    /\ sends = <<>>
    /\ deleted = {}
    /\ reactivated = {}
    /\ last = NoCall
    /\ requests = {}

\* No credentials set (the defaults of Settings), the channel objects as
\* constructed, the bot manager as constructed.
Init ==
    /\ EmptyStore
    /\ settings = [name \in SettingNames |-> ""]
    /\ channels = [p \in Platforms |-> [platform |-> p, session |-> None]]
    /\ bot_manager = [bots |-> <<>>, tasks |-> [p \in Platforms |-> "none"]]

\* The outcome of a call: what it returned, or the exception it raised;
\* targets is the user list send_opportunity_alert resolved (None when the
\* call did not get that far); pre_notifications is the length of the
\* Delivery Log when the call began, pre_subscriptions the subscriptions
\* table and pre_channels the channel objects when it began.
Call(op, args, ret, exc) ==
    [op |-> op, args |-> args, ret |-> ret, exc |-> exc,
     targets |-> None, pre_notifications |-> Len(notifications),
     pre_subscriptions |-> subscriptions, pre_channels |-> channels]

Returned(op, args, ret) == Call(op, args, ret, "None")
Raised(op, args, exc) == Call(op, args, None, exc)

\* select(T).where(T.id == id): scalar_one_or_none()
Exists(table, id) == id \in 1..Len(table)

-----------------------------------------------------------------------------
(* UserService *)

\* create_user: insert a users row (is_active defaults to True).
create_user(first_name) ==
    /\ Len(users) < MaxUsers
    /\ users' = Append(users, [id |-> Len(users) + 1,
                               first_name |-> first_name, is_active |-> TRUE])
    /\ last' = Returned("create_user", <<first_name>>, Some(Len(users) + 1))
    /\ sends' = <<>>
    /\ UNCHANGED <<user_platforms, user_preferences, opportunities,
                   subscriptions, notifications, deleted, reactivated>>
    /\ UNCHANGED runtime

\* delete_user: UPDATE users SET is_active = False WHERE id = :id; returns
\* rowcount > 0.
delete_user(user_id) ==
    /\ IF Exists(users, user_id)
       THEN /\ users' = [users EXCEPT ![user_id].is_active = FALSE]
            /\ last' = Returned("delete_user", <<user_id>>, TRUE)
       ELSE /\ last' = Returned("delete_user", <<user_id>>, FALSE)
            /\ UNCHANGED users
    /\ sends' = <<>>
    /\ UNCHANGED <<user_platforms, user_preferences, opportunities,
                   subscriptions, notifications, deleted, reactivated>>
    /\ UNCHANGED runtime

\* add_user_platform: None when the user does not exist, else a new binding
\* row (is_active defaults to True); no lookup of existing bindings.
add_user_platform(user_id, platform, platform_user_id) ==
    /\ Exists(users, user_id) => Len(user_platforms) < MaxPlatforms
    /\ IF ~Exists(users, user_id)
       THEN /\ last' = Returned("add_user_platform",
                                <<user_id, platform, platform_user_id>>, None)
            /\ UNCHANGED user_platforms
       ELSE /\ user_platforms' =
                   Append(user_platforms,
                          [id |-> Len(user_platforms) + 1, user_id |-> user_id,
                           platform |-> platform,
                           platform_user_id |-> platform_user_id,
                           is_active |-> TRUE])
            /\ last' = Returned("add_user_platform",
                                <<user_id, platform, platform_user_id>>,
                                Some(Len(user_platforms) + 1))
    /\ sends' = <<>>
    /\ UNCHANGED <<users, user_preferences, opportunities, subscriptions,
                   notifications, deleted, reactivated>>
    /\ UNCHANGED runtime

\* get_user_by_platform: the users joined to the binding rows of the
\* (platform, platform_user_id) pair, one result row per binding, neither
\* is_active flag consulted; scalar_one_or_none() gives None for no row,
\* the user for one row and raises for more than one.
get_user_by_platform(platform, platform_user_id) ==
    /\ LET rows == SelectSeq(user_platforms,
                             LAMBDA b : /\ b.platform = platform
                                        /\ b.platform_user_id = platform_user_id)
           args == <<platform, platform_user_id>>
       IN last' = IF Len(rows) > 1
                  THEN Raised("get_user_by_platform", args,
                              "MultipleResultsFound")
                  ELSE IF Len(rows) = 1
                  THEN Returned("get_user_by_platform", args,
                                Some(rows[1].user_id))
                  ELSE Returned("get_user_by_platform", args, None)
    /\ sends' = <<>>
    /\ UNCHANGED <<users, user_platforms, user_preferences, opportunities,
                   subscriptions, notifications, deleted, reactivated>>
    /\ UNCHANGED runtime

\* User.platforms (selectinload): the user's binding rows in row order.
platforms(user_id) ==
    SelectSeq(user_platforms, LAMBDA b : b.user_id = user_id)

-----------------------------------------------------------------------------
(* OpportunityService: catalog rows *)

\* server_default=func.now(): the clock at insert is not before any stored
\* created_at; two inserts may fall on the same clock reading.
Now ==
    IF opportunities = <<>> THEN {1}
    ELSE LET m == CHOOSE t \in {opportunities[i].created_at :
                                   i \in 1..Len(opportunities)} :
                      \A i \in 1..Len(opportunities) :
                          opportunities[i].created_at <= t
         IN {m, m + 1}

\* create_opportunity: insert Opportunity(**data, created_by); created_by is
\* a foreign key to users.id.
create_opportunity(opportunity_data, created_by) ==
    /\ Exists(users, created_by) => Len(opportunities) < MaxOpps
    /\ IF ~Exists(users, created_by)
       THEN /\ last' = Raised("create_opportunity",
                              <<opportunity_data, created_by>>, "IntegrityError")
            /\ UNCHANGED opportunities
       ELSE \E now \in Now :
            /\ opportunities' =
                   Append(opportunities,
                          [id |-> Len(opportunities) + 1,
                           title |-> opportunity_data.title,
                           description |-> opportunity_data.description,
                           opportunity_type |-> opportunity_data.opportunity_type,
                           organization |-> opportunity_data.organization,
                           url |-> opportunity_data.url,
                           deadline |-> opportunity_data.deadline,
                           location |-> opportunity_data.location,
                           language |-> opportunity_data.language,
                           tags |-> opportunity_data.tags,
                           is_active |-> TRUE,
                           created_by |-> created_by,
                           created_at |-> now])
            /\ last' = Returned("create_opportunity",
                                <<opportunity_data, created_by>>,
                                Some(Len(opportunities) + 1))
    /\ sends' = <<>>
    /\ UNCHANGED <<users, user_platforms, user_preferences, subscriptions,
                   notifications, deleted, reactivated>>
    /\ UNCHANGED runtime

\* Mutant: the UPDATE matches the row but leaves is_active as it was.
delete_opportunity_keeps_active(opportunity_id) ==
    /\ IF Exists(opportunities, opportunity_id)
       THEN /\ deleted' = deleted \cup {opportunity_id}
            /\ reactivated' = reactivated \ {opportunity_id}
            /\ last' = Returned("delete_opportunity", <<opportunity_id>>, TRUE)
            /\ UNCHANGED opportunities
       ELSE /\ last' = Returned("delete_opportunity", <<opportunity_id>>, FALSE)
            /\ UNCHANGED <<opportunities, deleted, reactivated>>
    /\ sends' = <<>>
    /\ UNCHANGED <<users, user_platforms, user_preferences, subscriptions,
                   notifications>>
    /\ UNCHANGED runtime

\* delete_opportunity: UPDATE ... SET is_active = False WHERE id = :id;
\* returns rowcount > 0.
delete_opportunity(opportunity_id) ==
    /\ IF Exists(opportunities, opportunity_id)
       THEN /\ opportunities' =
                   [opportunities EXCEPT ![opportunity_id].is_active = FALSE]
            /\ deleted' = deleted \cup {opportunity_id}
            /\ reactivated' = reactivated \ {opportunity_id}
            /\ last' = Returned("delete_opportunity", <<opportunity_id>>, TRUE)
       ELSE /\ last' = Returned("delete_opportunity", <<opportunity_id>>, FALSE)
            /\ UNCHANGED <<opportunities, deleted, reactivated>>
    /\ sends' = <<>>
    /\ UNCHANGED <<users, user_platforms, user_preferences, subscriptions,
                   notifications>>
    /\ UNCHANGED runtime

\* A row with the fields of update_data overwritten: .values(**update_data).
RECURSIVE ApplyValues(_, _, _)
ApplyValues(row, update_data, i) ==
    IF i > Len(update_data) THEN row
    ELSE ApplyValues([row EXCEPT ![update_data[i][1]] = update_data[i][2]],
                     update_data, i + 1)

\* The value update_data gives a field, as Optional.
Assigned(update_data, field) ==
    IF \E i \in 1..Len(update_data) : update_data[i][1] = field
    THEN Some(update_data[CHOOSE i \in 1..Len(update_data) :
                              update_data[i][1] = field][2])
    ELSE None

\* get_opportunity: the row id, or None.
get_opportunity(opportunity_id) ==
    IF Exists(opportunities, opportunity_id) THEN Some(opportunity_id) ELSE None

\* update_opportunity: with no field set, just get_opportunity; else
\* UPDATE ... SET <fields> WHERE id = :id, then get_opportunity.
update_opportunity(opportunity_id, update_data) ==
    /\ IF update_data # <<>> /\ Exists(opportunities, opportunity_id)
       THEN /\ opportunities' =
                   [opportunities EXCEPT ![opportunity_id] =
                       ApplyValues(@, update_data, 1)]
            /\ reactivated' =
                   IF /\ Assigned(update_data, "is_active") = Some(TRUE)
                      /\ opportunity_id \in deleted
                   THEN reactivated \cup {opportunity_id}
                   ELSE reactivated
       ELSE UNCHANGED <<opportunities, reactivated>>
    /\ last' = Returned("update_opportunity", <<opportunity_id, update_data>>,
                        get_opportunity(opportunity_id))
    /\ sends' = <<>>
    /\ UNCHANGED <<users, user_platforms, user_preferences, subscriptions,
                   notifications, deleted>>
    /\ UNCHANGED runtime

-----------------------------------------------------------------------------
(* OpportunityService: subscriptions *)

\* The subscriptions rows of a (user, opportunity) pair.
SubscriptionRows(user_id, opportunity_id) ==
    SelectSeq(subscriptions,
              LAMBDA r : r.user_id = user_id /\ r.opportunity_id = opportunity_id)

\* Mutant: the existence check left out, every call inserts a row.
subscribe_user_unchecked(opportunity_id, user_id) ==
    /\ Len(subscriptions) < MaxSubs
    /\ LET args == <<opportunity_id, user_id>>
       IN IF ~Exists(users, user_id) \/ ~Exists(opportunities, opportunity_id)
          THEN /\ last' = Raised("subscribe_user", args, "IntegrityError")
               /\ UNCHANGED subscriptions
          ELSE /\ subscriptions' =
                      Append(subscriptions,
                             [id |-> Len(subscriptions) + 1, user_id |-> user_id,
                              opportunity_id |-> opportunity_id,
                              is_active |-> TRUE])
               /\ last' = Returned("subscribe_user", args,
                                   Some(Len(subscriptions) + 1))
    /\ sends' = <<>>
    /\ UNCHANGED <<users, user_platforms, user_preferences, opportunities,
                   notifications, deleted, reactivated>>
    /\ UNCHANGED runtime

\* subscribe_user: None when a row for the pair exists (active or not), else
\* insert a row; user_id and opportunity_id are foreign keys.
subscribe_user(opportunity_id, user_id) ==
    /\ SubscriptionRows(user_id, opportunity_id) = <<>> =>
           Len(subscriptions) < MaxSubs
    /\ LET existing == SubscriptionRows(user_id, opportunity_id)
           args == <<opportunity_id, user_id>>
       IN IF Len(existing) > 1
          THEN /\ last' = Raised("subscribe_user", args, "MultipleResultsFound")
               /\ UNCHANGED subscriptions
          ELSE IF Len(existing) = 1
          THEN /\ last' = Returned("subscribe_user", args, None)
               /\ UNCHANGED subscriptions
          ELSE IF ~Exists(users, user_id) \/ ~Exists(opportunities, opportunity_id)
          THEN /\ last' = Raised("subscribe_user", args, "IntegrityError")
               /\ UNCHANGED subscriptions
          ELSE /\ subscriptions' =
                      Append(subscriptions,
                             [id |-> Len(subscriptions) + 1, user_id |-> user_id,
                              opportunity_id |-> opportunity_id,
                              is_active |-> TRUE])
               /\ last' = Returned("subscribe_user", args,
                                   Some(Len(subscriptions) + 1))
    /\ sends' = <<>>
    /\ UNCHANGED <<users, user_platforms, user_preferences, opportunities,
                   notifications, deleted, reactivated>>
    /\ UNCHANGED runtime

\* Mutant: the call reports whether a row changed, not whether one matched.
unsubscribe_user_changed(opportunity_id, user_id) ==
    /\ subscriptions' =
           [i \in 1..Len(subscriptions) |->
               IF /\ subscriptions[i].user_id = user_id
                  /\ subscriptions[i].opportunity_id = opportunity_id
               THEN [subscriptions[i] EXCEPT !.is_active = FALSE]
               ELSE subscriptions[i]]
    /\ last' = Returned("unsubscribe_user", <<opportunity_id, user_id>>,
                        subscriptions' # subscriptions)
    /\ sends' = <<>>
    /\ UNCHANGED <<users, user_platforms, user_preferences, opportunities,
                   notifications, deleted, reactivated>>
    /\ UNCHANGED runtime

\* unsubscribe_user: UPDATE ... SET is_active = False on every row of the
\* pair; returns rowcount > 0.
unsubscribe_user(opportunity_id, user_id) ==
    /\ subscriptions' =
           [i \in 1..Len(subscriptions) |->
               IF /\ subscriptions[i].user_id = user_id
                  /\ subscriptions[i].opportunity_id = opportunity_id
               THEN [subscriptions[i] EXCEPT !.is_active = FALSE]
               ELSE subscriptions[i]]
    /\ last' = Returned("unsubscribe_user", <<opportunity_id, user_id>>,
                        SubscriptionRows(user_id, opportunity_id) # <<>>)
    /\ sends' = <<>>
    /\ UNCHANGED <<users, user_platforms, user_preferences, opportunities,
                   notifications, deleted, reactivated>>
    /\ UNCHANGED runtime

\* get_user_subscriptions: the ids of the user's rows with is_active true.
get_user_subscriptions(user_id) ==
    Ids(SelectSeq(subscriptions,
                  LAMBDA r : r.user_id = user_id /\ r.is_active = TRUE))

\* get_opportunity_subscribers: the ids of the opportunity's rows with
\* is_active true.
get_opportunity_subscribers(opportunity_id) ==
    Ids(SelectSeq(subscriptions,
                  LAMBDA r : r.opportunity_id = opportunity_id
                             /\ r.is_active = TRUE))

\* subscribe_user up to its first await point: the SELECT of the pair's
\* rows.  With a row found the call returns None; with none found the
\* request goes on to its INSERT, which other requests may precede.
subscribe_user_select(request, opportunity_id, user_id) ==
    /\ \A r \in requests : r.request # request
    /\ LET existing == SubscriptionRows(user_id, opportunity_id)
           args == <<opportunity_id, user_id>>
       IN IF Len(existing) > 1
          THEN /\ last' = Raised("subscribe_user", args, "MultipleResultsFound")
               /\ UNCHANGED requests
          ELSE IF Len(existing) = 1
          THEN /\ last' = Returned("subscribe_user", args, None)
               /\ UNCHANGED requests
          ELSE /\ requests' = requests \cup
                      {[request |-> request, opportunity_id |-> opportunity_id,
                        user_id |-> user_id]}
               /\ UNCHANGED last
    /\ sends' = <<>>
    /\ UNCHANGED <<users, user_platforms, user_preferences, opportunities,
                   subscriptions, notifications, deleted, reactivated>>
    /\ UNCHANGED <<settings, channels, bot_manager>>

\* subscribe_user from db.add to its return: INSERT and commit; the table
\* has no unique constraint on (user_id, opportunity_id).
subscribe_user_insert(request) ==
    /\ \E r \in requests :
           /\ r.request = request
           /\ (Exists(users, r.user_id) /\ Exists(opportunities, r.opportunity_id))
                  => Len(subscriptions) < MaxSubs
           /\ requests' = requests \ {r}
           /\ LET args == <<r.opportunity_id, r.user_id>>
              IN IF \/ ~Exists(users, r.user_id)
                    \/ ~Exists(opportunities, r.opportunity_id)
                 THEN /\ last' = Raised("subscribe_user", args, "IntegrityError")
                      /\ UNCHANGED subscriptions
                 ELSE /\ subscriptions' =
                             Append(subscriptions,
                                    [id |-> Len(subscriptions) + 1,
                                     user_id |-> r.user_id,
                                     opportunity_id |-> r.opportunity_id,
                                     is_active |-> TRUE])
                      /\ last' = Returned("subscribe_user", args,
                                          Some(Len(subscriptions) + 1))
    /\ sends' = <<>>
    /\ UNCHANGED <<users, user_platforms, user_preferences, opportunities,
                   notifications, deleted, reactivated>>
    /\ UNCHANGED <<settings, channels, bot_manager>>

-----------------------------------------------------------------------------
(* AdminService *)

\* approve_opportunity: False when no row has the id, else set the row
\* active and return True.
approve_opportunity(opportunity_id) ==
    /\ IF Exists(opportunities, opportunity_id)
       THEN /\ opportunities' =
                   [opportunities EXCEPT ![opportunity_id].is_active = TRUE]
            /\ reactivated' =
                   IF opportunity_id \in deleted
                   THEN reactivated \cup {opportunity_id} ELSE reactivated
            /\ last' = Returned("approve_opportunity", <<opportunity_id>>, TRUE)
       ELSE /\ last' = Returned("approve_opportunity", <<opportunity_id>>, FALSE)
            /\ UNCHANGED <<opportunities, reactivated>>
    /\ sends' = <<>>
    /\ UNCHANGED <<users, user_platforms, user_preferences, subscriptions,
                   notifications, deleted>>
    /\ UNCHANGED runtime

\* reject_opportunity: False when no row has the id, else set the row
\* inactive and return True.
reject_opportunity(opportunity_id, reason) ==
    /\ IF Exists(opportunities, opportunity_id)
       THEN /\ opportunities' =
                   [opportunities EXCEPT ![opportunity_id].is_active = FALSE]
            /\ last' = Returned("reject_opportunity",
                                <<opportunity_id, reason>>, TRUE)
       ELSE /\ last' = Returned("reject_opportunity",
                                <<opportunity_id, reason>>, FALSE)
            /\ UNCHANGED opportunities
    /\ sends' = <<>>
    /\ UNCHANGED <<users, user_platforms, user_preferences, subscriptions,
                   notifications, deleted, reactivated>>
    /\ UNCHANGED runtime

-----------------------------------------------------------------------------
(* UserService: preferences *)

\* The user_preferences rows of a user.
PreferenceRows(user_id) ==
    SelectSeq(user_preferences, LAMBDA r : r.user_id = user_id)

\* create_user_preferences: None when the user does not exist, else insert
\* a row; user_preferences.user_id is unique.
create_user_preferences(user_id, preferences_data) ==
    /\ LET args == <<user_id, preferences_data>>
       IN IF ~Exists(users, user_id)
          THEN /\ last' = Returned("create_user_preferences", args, None)
               /\ UNCHANGED user_preferences
          ELSE IF PreferenceRows(user_id) # <<>>
          THEN /\ last' = Raised("create_user_preferences", args,
                                 "IntegrityError")
               /\ UNCHANGED user_preferences
          ELSE /\ user_preferences' =
                      Append(user_preferences,
                             [id |-> Len(user_preferences) + 1,
                              user_id |-> user_id,
                              interests |-> preferences_data.interests,
                              field_of_study |-> preferences_data.field_of_study,
                              location |-> preferences_data.location])
               /\ last' = Returned("create_user_preferences", args,
                                   Some(Len(user_preferences) + 1))
    /\ sends' = <<>>
    /\ UNCHANGED <<users, user_platforms, opportunities, subscriptions,
                   notifications, deleted, reactivated>>
    /\ UNCHANGED runtime

\* get_user_preferences: the id of the user's preference row, or None.
get_user_preferences(user_id) ==
    IF PreferenceRows(user_id) = <<>> THEN None
    ELSE Some(PreferenceRows(user_id)[1].id)

\* update_user_preferences: with no field set, just get_user_preferences;
\* else UPDATE ... SET <fields> WHERE user_id = :user_id (no row is
\* inserted when none matches), then get_user_preferences.
update_user_preferences(user_id, update_data) ==
    /\ user_preferences' =
           IF update_data = <<>> THEN user_preferences
           ELSE [i \in 1..Len(user_preferences) |->
                    IF user_preferences[i].user_id = user_id
                    THEN ApplyValues(user_preferences[i], update_data, 1)
                    ELSE user_preferences[i]]
    /\ last' = Returned("update_user_preferences", <<user_id, update_data>>,
                        get_user_preferences(user_id))
    /\ sends' = <<>>
    /\ UNCHANGED <<users, user_platforms, opportunities, subscriptions,
                   notifications, deleted, reactivated>>
    /\ UNCHANGED runtime

-----------------------------------------------------------------------------
(* OpportunityService: search and recommendations *)

\* The orders in which the store may return a set of rows.
Orders(ids) ==
    {p \in [1..Cardinality(ids) -> ids] :
        \A i, k \in 1..Cardinality(ids) : i # k => p[i] # p[k]}

\* Mutant: ascending order (.asc() for .desc()).
ByCreatedAtAsc(p) ==
    \A i \in 1..(Len(p) - 1) :
        opportunities[p[i]].created_at <= opportunities[p[i + 1]].created_at

\* .order_by(Opportunity.created_at.desc()): rows of equal created_at in
\* any order.
ByCreatedAtDesc(p) ==
    \A i \in 1..(Len(p) - 1) :
        opportunities[p[i]].created_at >= opportunities[p[i + 1]].created_at

\* .offset(offset).limit(limit)
OffsetLimit(p, offset, limit) ==
    SubSeq(p, offset + 1,
           IF Len(p) < offset + limit THEN Len(p) ELSE offset + limit)

\* or_(*[Opportunity.tags.contains([t]) for t in tags])
AnyTag(row, tags) == \E i \in 1..Len(tags) : contains(row.tags, tags[i])

\* Mutant: the is_active condition left out of the WHERE clause.
SearchMatchesAnyRow(row, search) ==
    /\ Truthy(search.query) =>
           \/ ilike(Some(row.title), search.query[1])
           \/ ilike(Some(row.description), search.query[1])
           \/ ilike(Some(row.organization), search.query[1])
    /\ search.opportunity_type # None =>
           row.opportunity_type = search.opportunity_type[1]
    /\ Truthy(search.tags) => AnyTag(row, search.tags[1])
    /\ Truthy(search.location) => ilike(row.location, search.location[1])
    /\ Truthy(search.language) => row.language = search.language[1]

\* The WHERE clause of search_opportunities.
SearchMatches(row, search) ==
    /\ row.is_active = TRUE
    /\ Truthy(search.query) =>
           \/ ilike(Some(row.title), search.query[1])
           \/ ilike(Some(row.description), search.query[1])
           \/ ilike(Some(row.organization), search.query[1])
    /\ search.opportunity_type # None =>
           row.opportunity_type = search.opportunity_type[1]
    /\ Truthy(search.tags) => AnyTag(row, search.tags[1])
    /\ Truthy(search.location) => ilike(row.location, search.location[1])
    /\ Truthy(search.language) => row.language = search.language[1]

\* The lists search_opportunities may return (the query has no ORDER BY).
SearchResults(search) ==
    {OffsetLimit(p, search.offset, search.limit) :
        p \in Orders({i \in 1..Len(opportunities) :
                         SearchMatches(opportunities[i], search)})}

\* search_opportunities
search_opportunities(search) ==
    /\ \E result \in SearchResults(search) :
           last' = Returned("search_opportunities", <<search>>, result)
    /\ sends' = <<>>
    /\ UNCHANGED <<users, user_platforms, user_preferences, opportunities,
                   subscriptions, notifications, deleted, reactivated>>
    /\ UNCHANGED runtime

\* Mutant: interests and field of study joined by OR instead of chained
\* .where() calls.
RecommendationMatchesEither(row, user_prefs) ==
    /\ row.is_active = TRUE
    /\ \/ user_prefs.interests # <<>> /\ AnyTag(row, user_prefs.interests)
       \/ /\ Truthy(user_prefs.field_of_study)
          /\ \/ ilike(Some(row.title), user_prefs.field_of_study[1])
             \/ ilike(Some(row.description), user_prefs.field_of_study[1])
       \/ user_prefs.interests = <<>> /\ ~Truthy(user_prefs.field_of_study)
    /\ Truthy(user_prefs.location) =>
           ilike(row.location, user_prefs.location[1])

\* The WHERE clause of get_user_recommendations for a Preference Model.
RecommendationMatches(row, user_prefs) ==
    /\ row.is_active = TRUE
    /\ user_prefs.interests # <<>> => AnyTag(row, user_prefs.interests)
    /\ Truthy(user_prefs.field_of_study) =>
           \/ ilike(Some(row.title), user_prefs.field_of_study[1])
           \/ ilike(Some(row.description), user_prefs.field_of_study[1])
    /\ Truthy(user_prefs.location) =>
           ilike(row.location, user_prefs.location[1])

\* The rows get_user_recommendations selects: the active rows when the
\* user has no Preference Model, else the rows its WHERE clause keeps.
RecommendationCandidates(user_id) ==
    IF PreferenceRows(user_id) = <<>>
    THEN {i \in 1..Len(opportunities) : opportunities[i].is_active = TRUE}
    ELSE {i \in 1..Len(opportunities) :
             RecommendationMatches(opportunities[i], PreferenceRows(user_id)[1])}

\* get_user_recommendations
get_user_recommendations(user_id, limit) ==
    /\ \E p \in Orders(RecommendationCandidates(user_id)) :
           /\ ByCreatedAtDesc(p)
           /\ last' = Returned("get_user_recommendations", <<user_id, limit>>,
                               OffsetLimit(p, 0, limit))
    /\ sends' = <<>>
    /\ UNCHANGED <<users, user_platforms, user_preferences, opportunities,
                   subscriptions, notifications, deleted, reactivated>>
    /\ UNCHANGED runtime

-----------------------------------------------------------------------------
(* Channels (bots) *)

\* TelegramBot() / DiscordBot() / WhatsAppBot() as constructed: no session
\* (application / bot / client is None) until start() has set one.
NewBot(platform) == [platform |-> platform, session |-> None]

\* send_message: True only when the bot holds a session and the platform
\* call went through (delivered); every exception is caught and becomes
\* False.
send_message(bot, user_id, message, delivered) ==
    IF bot.session # None THEN delivered ELSE FALSE

\* The tables of the store.
store == <<users, user_platforms, user_preferences, opportunities,
           subscriptions, notifications, deleted, reactivated>>

\* Mutant: any() for all().
ConfiguredAny(platform) ==
    CASE platform = "telegram" -> settings.TELEGRAM_BOT_TOKEN # ""
      [] platform = "discord" -> settings.DISCORD_BOT_TOKEN # ""
      [] platform = "whatsapp" ->
             \/ settings.WHATSAPP_ACCOUNT_SID # ""
             \/ settings.WHATSAPP_AUTH_TOKEN # ""
             \/ settings.WHATSAPP_PHONE_NUMBER # ""

\* The credential test of a channel, as in start() and start_all_bots: the
\* token is truthy; for WhatsApp all([sid, auth token, phone number]).
Configured(platform) ==
    CASE platform = "telegram" -> settings.TELEGRAM_BOT_TOKEN # ""
      [] platform = "discord" -> settings.DISCORD_BOT_TOKEN # ""
      [] platform = "whatsapp" ->
             /\ settings.WHATSAPP_ACCOUNT_SID # ""
             /\ settings.WHATSAPP_AUTH_TOKEN # ""
             /\ settings.WHATSAPP_PHONE_NUMBER # ""

\* start() once the session object (application / bot / client) is
\* assigned; the WhatsApp client needs no connection and is ready at once.
session_created(bot) ==
    [bot EXCEPT !.session =
        IF bot.platform = "whatsapp" THEN Some("running") ELSE Some("created")]

\* start() at its end: initialized, started and polling / connected.
session_running(bot) == [bot EXCEPT !.session = Some("running")]

\* start() called on a channel: a no-op without credentials; else the
\* session object is created and the platform start-up either succeeds or
\* raises part-way (outcome), leaving the session object in place.
start(platform, outcome) ==
    /\ IF ~Configured(platform)
       THEN /\ last' = Returned("start", <<platform>>, None)
            /\ UNCHANGED channels
       ELSE IF platform = "whatsapp" \/ outcome = "ok"
       THEN /\ channels' = [channels EXCEPT ![platform] = session_running(@)]
            /\ last' = Returned("start", <<platform>>, None)
       ELSE /\ channels' = [channels EXCEPT ![platform] = session_created(@)]
            /\ last' = Raised("start", <<platform>>, outcome)
    /\ sends' = <<>>
    /\ UNCHANGED <<requests, settings, bot_manager>>
    /\ UNCHANGED store

\* Updater.stop() / Application.stop() raise RuntimeError unless running;
\* TelegramBot.stop calls them whenever self.application is set.
StopRaises(bot) ==
    /\ bot.platform = "telegram"
    /\ bot.session # None
    /\ bot.session # Some("running")

\* The channel after a stop() that went through: the Telegram application
\* is shut down, the Discord bot closed; WhatsAppBot.stop only logs.
stopped(bot) ==
    IF bot.session = None \/ bot.platform = "whatsapp" THEN bot
    ELSE [bot EXCEPT !.session = Some("stopped")]

\* stop() called on a channel.
stop(platform) ==
    /\ IF StopRaises(channels[platform])
       THEN /\ last' = Raised("stop", <<platform>>, "RuntimeError")
            /\ UNCHANGED channels
       ELSE /\ channels' = [channels EXCEPT ![platform] = stopped(@)]
            /\ last' = Returned("stop", <<platform>>, None)
    /\ sends' = <<>>
    /\ UNCHANGED <<requests, settings, bot_manager>>
    /\ UNCHANGED store

\* What the platform calls in the try block of send_message raise ("None"
\* when they go through): int(user_id) of DiscordBot raises ValueError for
\* a recipient that is not a number; else the platform's answer.
PlatformCall(platform, user_id, answer) ==
    IF platform = "discord" /\ user_id \notin Addresses THEN "ValueError"
    ELSE answer

\* Mutant: the except clause catches nothing.
CaughtNothing(raised) == FALSE

\* `except Exception as e`: every exception of the try block is caught.
Caught(raised) == raised # "None"

\* send_message called on a channel: with no session nothing is tried.
channel_send_message(platform, user_id, answer) ==
    /\ LET bot == channels[platform]
           args == <<platform, user_id, answer>>
           raised == IF bot.session = None THEN "None"
                     ELSE PlatformCall(platform, user_id, answer)
       IN IF raised # "None" /\ ~Caught(raised)
          THEN last' = Raised("send_message", args, raised)
          ELSE last' = Returned("send_message", args,
                                send_message(bot, user_id, <<"text">>,
                                             raised = "None"))
    /\ sends' = <<>>
    /\ UNCHANGED runtime
    /\ UNCHANGED store

-----------------------------------------------------------------------------
(* BotManager *)

\* bot.send_message as the manager awaits it: the platform call is tried
\* when the bot holds a session, and every exception it raises is caught.
bot_send_message(platform, user_id, answer) ==
    send_message(channels[platform], user_id, <<"text">>,
                 channels[platform].session # None
                     /\ PlatformCall(platform, user_id, answer) = "None")

\* send_message_to_user on the manager's state: False when the platform
\* has no bot in self.bots, else what the bot's send_message returns;
\* acc.sends lists the bot calls made, acc.results the value per call.
route_message(binding, acc) ==
    IF binding.platform \notin Range(bot_manager.bots)
    THEN [sends |-> acc.sends, results |-> Append(acc.results, FALSE)]
    ELSE LET ok == bot_send_message(binding.platform,
                                    binding.platform_user_id, binding.answer)
         IN [sends |-> Append(acc.sends,
                              [platform |-> binding.platform,
                               to |-> binding.platform_user_id,
                               message |-> <<"text">>, ok |-> ok]),
             results |-> Append(acc.results, ok)]

\* send_message_to_user called on the manager.
send_message_to_user(user_id, platform, answer) ==
    /\ LET out == route_message([platform |-> platform,
                                 platform_user_id |-> user_id,
                                 answer |-> answer],
                                [sends |-> <<>>, results |-> <<>>])
       IN /\ sends' = out.sends
          /\ last' = Returned("send_message_to_user",
                              <<user_id, platform, answer>>, out.results[1])
    /\ UNCHANGED runtime
    /\ UNCHANGED store

\* The loop of send_message_to_all_platforms from user_platforms[i] on.
RECURSIVE route_all(_, _, _)
route_all(bindings, i, acc) ==
    IF i > Len(bindings) THEN acc
    ELSE route_all(bindings, i + 1, route_message(bindings[i], acc))

\* Mutant: a platform's entry is written once, by its first binding.
results_dict_first(bindings, results) ==
    [p \in {bindings[i].platform : i \in 1..Len(bindings)} |->
        results[CHOOSE i \in 1..Len(bindings) :
                    /\ bindings[i].platform = p
                    /\ \A k \in 1..(i - 1) : bindings[k].platform # p]]

\* results[platform] = success in list order: the dict holds, per platform,
\* the value its last binding assigned.
results_dict(bindings, results) ==
    [p \in {bindings[i].platform : i \in 1..Len(bindings)} |->
        results[CHOOSE i \in 1..Len(bindings) :
                    /\ bindings[i].platform = p
                    /\ \A k \in (i + 1)..Len(bindings) : bindings[k].platform # p]]

\* send_message_to_all_platforms called on the manager.
send_message_to_all_platforms(bindings) ==
    /\ LET out == route_all(bindings, 1, [sends |-> <<>>, results |-> <<>>])
       IN /\ sends' = out.sends
          /\ last' = Returned("send_message_to_all_platforms", <<bindings>>,
                              results_dict(bindings, out.results))
    /\ UNCHANGED runtime
    /\ UNCHANGED store

\* The order in which start_all_bots looks at the platforms (and so the
\* order of the bots dict).
ManagedPlatforms == <<"telegram", "discord", "whatsapp">>

\* start_all_bots: for each channel whose credentials are set, a new bot is
\* put in self.bots; the Telegram and Discord start() run as tasks, the
\* WhatsApp start() is awaited.
start_all_bots ==
    /\ bot_manager.bots = <<>>
    /\ bot_manager' =
           [bots |-> SelectSeq(ManagedPlatforms, Configured),
            tasks |-> [p \in Platforms |->
                          IF p # "whatsapp" /\ Configured(p)
                          THEN "pending" ELSE "none"]]
    /\ channels' =
           [p \in Platforms |->
               IF ~Configured(p) THEN channels[p]
               ELSE IF p = "whatsapp" THEN session_created(NewBot(p))
               ELSE NewBot(p)]
    /\ last' = Returned("start_all_bots", <<>>, None)
    /\ sends' = <<>>
    /\ UNCHANGED <<requests, settings>>
    /\ UNCHANGED store

\* The task of a start(): from its first step to the await of the platform
\* start-up, the session object assigned.
start_task_begin(platform) ==
    /\ bot_manager.tasks[platform] = "pending"
    /\ IF ~Configured(platform)
       THEN /\ bot_manager' = [bot_manager EXCEPT !.tasks[platform] = "done"]
            /\ UNCHANGED channels
       ELSE /\ bot_manager' =
                   [bot_manager EXCEPT !.tasks[platform] = "starting"]
            /\ channels' = [channels EXCEPT ![platform] = session_created(@)]
    /\ UNCHANGED <<last, sends, requests, settings>>
    /\ UNCHANGED store

\* The task of a start(): the platform start-up succeeds (the Discord task
\* then stays in bot.start until closed) or raises, which ends the task.
start_task_finish(platform, outcome) ==
    /\ bot_manager.tasks[platform] = "starting"
    /\ IF outcome = "ok"
       THEN /\ bot_manager' =
                   [bot_manager EXCEPT !.tasks[platform] =
                       IF platform = "discord" THEN "running" ELSE "done"]
            /\ channels' = [channels EXCEPT ![platform] = session_running(@)]
       ELSE /\ bot_manager' = [bot_manager EXCEPT !.tasks[platform] = "failed"]
            /\ UNCHANGED channels
    /\ UNCHANGED <<last, sends, requests, settings>>
    /\ UNCHANGED store

\* task.cancel(): a task that has not ended is cancelled where it stands.
cancel(task) ==
    IF task \in {"pending", "starting", "running"} THEN "cancelled" ELSE task

\* `for bot in self.bots.values(): await bot.stop()` from bots[i] on: the
\* first stop() that raises ends the loop.
RECURSIVE stop_bots(_, _, _)
stop_bots(bots, i, chans) ==
    IF i > Len(bots) THEN [channels |-> chans, exc |-> "None"]
    ELSE IF StopRaises(chans[bots[i]])
    THEN [channels |-> chans, exc |-> "RuntimeError"]
    ELSE stop_bots(bots, i + 1, [chans EXCEPT ![bots[i]] = stopped(@)])

\* stop_all_bots: cancel the tasks, gather them, stop each bot.
stop_all_bots ==
    /\ LET out == stop_bots(bot_manager.bots, 1, channels)
       IN /\ channels' = out.channels
          /\ last' = Call("stop_all_bots", <<>>, None, out.exc)
    /\ bot_manager' =
           [bot_manager EXCEPT !.tasks = [p \in Platforms |-> cancel(@[p])]]
    /\ sends' = <<>>
    /\ UNCHANGED <<requests, settings>>
    /\ UNCHANGED store

-----------------------------------------------------------------------------
(* Webhooks *)

\* Inbound request bodies: a JSON object, a body that is not JSON, a
\* form with From and Body, a form with neither, a form whose From part is
\* an uploaded file.
JsonBody == [format |-> "json", From |-> None, Body |-> None]
NotJsonBody == [format |-> "text", From |-> None, Body |-> None]
FormMessage ==
    [format |-> "form", From |-> Some("whatsapp:100"), Body |-> Some("help")]
FormEmpty == [format |-> "form", From |-> None, Body |-> None]
FormFile == [format |-> "form", From |-> Some("file"), Body |-> Some("help")]

Payloads == {JsonBody, NotJsonBody, FormMessage, FormEmpty, FormFile}

OK == [status |-> 200, body |-> [kind |-> "json", value |-> "status ok"]]
BadRequest == [status |-> 400, body |-> [kind |-> "json", value |-> "detail"]]

\* _create_twiml_response: a <Response><Message> document as a string.
create_twiml_response(message) == [kind |-> "twiml", value |-> message]

\* WhatsAppBot.handle_message: the reply to the Body text as TwiML; any
\* exception on the way (From is not a string) gives the apology reply.
handle_message(platform, data) ==
    IF platform # "whatsapp" THEN None
    ELSE IF data.From = Some("file") THEN Some(create_twiml_response("Sorry"))
    ELSE IF data.Body = Some("help") THEN Some(create_twiml_response("Commands"))
    ELSE Some(create_twiml_response("General"))

\* BotManager.handle_webhook: None when the platform has no bot in
\* self.bots, else the bot's handle_message.
handle_webhook(platform, data) ==
    IF platform \notin Range(bot_manager.bots) THEN None
    ELSE handle_message(platform, data)

\* telegram_webhook / discord_webhook: request.json() raises on a body that
\* is not JSON, which the handler turns into a 400; else the result of
\* handle_webhook is dropped and {"status": "ok"} returned.
json_webhook(platform, payload) ==
    IF payload.format # "json" THEN BadRequest ELSE OK

telegram_webhook(payload) ==
    /\ last' = Returned("telegram_webhook", <<payload>>,
                        json_webhook("telegram", payload))
    /\ sends' = <<>>
    /\ UNCHANGED runtime
    /\ UNCHANGED store

discord_webhook(payload) ==
    /\ last' = Returned("discord_webhook", <<payload>>,
                        json_webhook("discord", payload))
    /\ sends' = <<>>
    /\ UNCHANGED runtime
    /\ UNCHANGED store

\* whatsapp_webhook: request.form() gives the form fields (none for a body
\* that is not a form); the result of handle_webhook is the response body.
whatsapp_webhook(payload) ==
    /\ LET data == IF payload.format = "form" THEN payload ELSE FormEmpty
           response == handle_webhook("whatsapp", data)
       IN last' = Returned("whatsapp_webhook", <<payload>>,
                           [status |-> 200,
                            body |-> IF response = None
                                     THEN [kind |-> "json", value |-> "null"]
                                     ELSE response[1]])
    /\ sends' = <<>>
    /\ UNCHANGED runtime
    /\ UNCHANGED store

-----------------------------------------------------------------------------
(* NotificationService *)

\* The names bound in the module namespace of notification_service.py: its
\* imports and its class.
ModuleGlobals ==
    {"AsyncSession", "select", "update", "and_", "List", "Optional",
     "Notification", "User", "UserPlatform", "Opportunity",
     "TelegramBot", "DiscordBot", "WhatsAppBot", "NotificationService"}

\* __init__: one new bot object per platform, none of them started.
NotificationServiceBots == [p \in Platforms |-> NewBot(p)]

Ellipsis == <<".", ".", ".">>
DescriptionLimit == 200
TagLimit == 5

\* Mutant: the UPDATE without the user_id condition.
mark_notifications_read_any_user(user_id, notification_ids) ==
    /\ notifications' =
           [i \in 1..Len(notifications) |->
               IF notifications[i].id \in Range(notification_ids)
               THEN [notifications[i] EXCEPT !.is_read = TRUE]
               ELSE notifications[i]]
    /\ last' = Returned("mark_notifications_read",
                        <<user_id, notification_ids>>, TRUE)
    /\ sends' = <<>>
    /\ UNCHANGED <<users, user_platforms, user_preferences, opportunities,
                   subscriptions, deleted, reactivated>>
    /\ UNCHANGED runtime

\* mark_notifications_read: UPDATE notifications SET is_read = True WHERE
\* user_id = :user_id AND id IN (:notification_ids); returns True.
mark_notifications_read(user_id, notification_ids) ==
    /\ notifications' =
           [i \in 1..Len(notifications) |->
               IF /\ notifications[i].user_id = user_id
                  /\ notifications[i].id \in Range(notification_ids)
               THEN [notifications[i] EXCEPT !.is_read = TRUE]
               ELSE notifications[i]]
    /\ last' = Returned("mark_notifications_read",
                        <<user_id, notification_ids>>, TRUE)
    /\ sends' = <<>>
    /\ UNCHANGED <<users, user_platforms, user_preferences, opportunities,
                   subscriptions, deleted, reactivated>>
    /\ UNCHANGED runtime

\* _format_opportunity_message: the parts of the alert text, in order.
format_opportunity_message(opportunity) ==
    [title |-> opportunity.title,
     description |-> Take(opportunity.description, DescriptionLimit) \o Ellipsis,
     organization |-> opportunity.organization,
     deadline |-> IF Truthy(opportunity.deadline)
                  THEN opportunity.deadline ELSE None,
     location |-> IF Truthy(opportunity.location)
                  THEN opportunity.location ELSE None,
     url |-> IF Truthy(opportunity.url) THEN opportunity.url ELSE None,
     tags |-> Take(opportunity.tags, TagLimit)]

\* OpportunityCreate bodies for the alert text: descriptions of 4,
\* DescriptionLimit and DescriptionLimit + 1 characters, tag lists of 0, 2
\* and TagLimit + 1 tags.
Repeat(c, n) == [i \in 1..n |-> c]
SixTags == <<"AI", "Bio", "Math", "Art", "Law", "Web">>

FormatInputs ==
    {[OppGrant EXCEPT !.description = d, !.tags = t] :
        d \in {s_math, Repeat("x", DescriptionLimit),
               Repeat("x", DescriptionLimit + 1)},
        t \in {<<>>, <<"AI", "Math">>, SixTags}}

\* A call of _format_opportunity_message on a stored opportunity.
format_message(opportunity_id) ==
    /\ Exists(opportunities, opportunity_id)
    /\ last' = Returned("_format_opportunity_message", <<opportunity_id>>,
                        Some(format_opportunity_message(
                                 opportunities[opportunity_id])))
    /\ sends' = <<>>
    /\ UNCHANGED <<users, user_platforms, user_preferences, opportunities,
                   subscriptions, notifications, deleted, reactivated>>
    /\ UNCHANGED runtime

\* _record_notification: append a notifications row (is_read defaults to
\* False).
record_notification(log, user_id, opportunity_id, platform, message) ==
    Append(log, [id |-> Len(log) + 1, user_id |-> user_id,
                 opportunity_id |-> opportunity_id, platform |-> platform,
                 message |-> message, is_read |-> FALSE])

\* _send_to_user_platforms over bindings[i..]: each active binding gets one
\* send_message on the bot of its platform, then one notifications row.
\* acc = [sends, notifications] so far.
RECURSIVE send_to_user_platforms(_, _, _, _, _)
send_to_user_platforms(bindings, i, user_id, opportunity, acc) ==
    IF i > Len(bindings) THEN acc
    ELSE LET b == bindings[i]
             message == format_opportunity_message(opportunity)
             ok == send_message(NotificationServiceBots[b.platform],
                                b.platform_user_id, message, TRUE)
         IN IF ~b.is_active
            THEN send_to_user_platforms(bindings, i + 1, user_id, opportunity, acc)
            ELSE send_to_user_platforms(
                     bindings, i + 1, user_id, opportunity,
                     [sends |-> Append(acc.sends,
                                       [platform |-> b.platform,
                                        to |-> b.platform_user_id,
                                        message |-> message, ok |-> ok]),
                      notifications |->
                          record_notification(acc.notifications, user_id,
                                              opportunity.id, b.platform, message)])

\* The users loop of send_opportunity_alert over targets[i..].
RECURSIVE send_to_users(_, _, _, _)
send_to_users(targets, i, opportunity, acc) ==
    IF i > Len(targets) THEN acc
    ELSE send_to_users(targets, i + 1, opportunity,
                       send_to_user_platforms(platforms(targets[i]), 1,
                                              targets[i], opportunity, acc))

\* The target users of send_opportunity_alert: User.id IN user_ids when
\* user_ids is truthy, else the users joined to the subscriptions rows of
\* the opportunity (one result row per joined subscriptions row).
TargetUsers(opportunity_id, user_ids) ==
    IF Truthy(user_ids)
    THEN Ids(SelectSeq(users, LAMBDA u : u.id \in Range(user_ids[1])))
    ELSE [i \in 1..Len(SelectSeq(subscriptions,
                                 LAMBDA r : r.opportunity_id = opportunity_id)) |->
             SelectSeq(subscriptions,
                       LAMBDA r : r.opportunity_id = opportunity_id)[i].user_id]

\* The names the target query of send_opportunity_alert looks up.
TargetQueryNames(user_ids) ==
    IF Truthy(user_ids)
    THEN {"select", "User", "selectinload"}
    ELSE {"select", "User", "selectinload", "Subscription"}

\* send_opportunity_alert: False when no opportunities row has the id; else
\* build the target query (a name that is not bound raises NameError), send
\* to every target's platforms and return True.
send_opportunity_alert(opportunity_id, user_ids) ==
    LET args == <<opportunity_id, user_ids>>
        out == send_to_users(TargetUsers(opportunity_id, user_ids), 1,
                             opportunities[opportunity_id],
                             [sends |-> <<>>, notifications |-> notifications])
    IN  /\ IF ~Exists(opportunities, opportunity_id)
           THEN /\ last' = Returned("send_opportunity_alert", args, FALSE)
                /\ sends' = <<>>
                /\ UNCHANGED notifications
           ELSE IF ~(TargetQueryNames(user_ids) \subseteq ModuleGlobals)
           THEN /\ last' = Raised("send_opportunity_alert", args, "NameError")
                /\ sends' = <<>>
                /\ UNCHANGED notifications
           ELSE /\ Len(out.notifications) <= MaxNotifications
                /\ last' = [Returned("send_opportunity_alert", args, TRUE)
                               EXCEPT !.targets =
                                   Some(TargetUsers(opportunity_id, user_ids))]
                /\ sends' = out.sends
                /\ notifications' = out.notifications
        /\ UNCHANGED <<users, user_platforms, user_preferences, opportunities,
                       subscriptions, deleted, reactivated>>
        /\ UNCHANGED runtime

\* send_opportunity_alert up to its first await point: the SELECT of the
\* opportunity row is issued and the request waits for its result.
send_opportunity_alert_select(request, opportunity_id, user_ids) ==
    /\ \A r \in requests : r.request # request
    /\ requests' = requests \cup
           {[request |-> request, opportunity_id |-> opportunity_id,
             user_ids |-> user_ids]}
    /\ sends' = <<>>
    /\ UNCHANGED <<users, user_platforms, user_preferences, opportunities,
                   subscriptions, notifications, deleted, reactivated, last>>
    /\ UNCHANGED <<settings, channels, bot_manager>>

\* send_opportunity_alert from the result of that SELECT on: False when no
\* row has the id; else the target query is built, which raises NameError
\* on a name the module does not bind, before any send is awaited.  The
\* sends of _send_to_user_platforms are awaited one after the other, each
\* without a timeout.
send_opportunity_alert_resume(request) ==
    /\ \E r \in requests :
           /\ r.request = request
           /\ requests' = requests \ {r}
           /\ LET args == <<r.opportunity_id, r.user_ids>>
                  out == send_to_users(
                             TargetUsers(r.opportunity_id, r.user_ids), 1,
                             opportunities[r.opportunity_id],
                             [sends |-> <<>>, notifications |-> notifications])
              IN IF ~Exists(opportunities, r.opportunity_id)
                 THEN /\ last' = Returned("send_opportunity_alert", args, FALSE)
                      /\ sends' = <<>>
                      /\ UNCHANGED notifications
                 ELSE IF ~(TargetQueryNames(r.user_ids) \subseteq ModuleGlobals)
                 THEN /\ last' = Raised("send_opportunity_alert", args,
                                        "NameError")
                      /\ sends' = <<>>
                      /\ UNCHANGED notifications
                 ELSE /\ Len(out.notifications) <= MaxNotifications
                      /\ last' = [Returned("send_opportunity_alert", args, TRUE)
                                     EXCEPT !.targets =
                                         Some(TargetUsers(r.opportunity_id,
                                                          r.user_ids))]
                      /\ sends' = out.sends
                      /\ notifications' = out.notifications
    /\ UNCHANGED <<users, user_platforms, user_preferences, opportunities,
                   subscriptions, deleted, reactivated>>
    /\ UNCHANGED <<settings, channels, bot_manager>>

\* Mutant: the loop ends at the first send that fails.
send_welcome_message_until_failure(user_id) ==
    /\ Exists(users, user_id)
    /\ LET active == SelectSeq(platforms(user_id), LAMBDA b : b.is_active)
           message == <<"Welcome", users[user_id].first_name>>
       IN sends' = [i \in 1..(IF active = <<>> THEN 0 ELSE 1) |->
                       [platform |-> active[i].platform,
                        to |-> active[i].platform_user_id,
                        message |-> message,
                        ok |-> send_message(
                                   NotificationServiceBots[active[i].platform],
                                   active[i].platform_user_id, message, TRUE)]]
    /\ last' = Returned("send_welcome_message", <<user_id>>, None)
    /\ UNCHANGED <<users, user_platforms, user_preferences, opportunities,
                   subscriptions, notifications, deleted, reactivated>>
    /\ UNCHANGED runtime

\* send_welcome_message(user): one send_message per active binding of the
\* user, on the bot of its platform; nothing is written to the store.
send_welcome_message(user_id) ==
    /\ Exists(users, user_id)
    /\ LET active == SelectSeq(platforms(user_id), LAMBDA b : b.is_active)
           message == <<"Welcome", users[user_id].first_name>>
       IN sends' = [i \in 1..Len(active) |->
                       [platform |-> active[i].platform,
                        to |-> active[i].platform_user_id,
                        message |-> message,
                        ok |-> send_message(
                                   NotificationServiceBots[active[i].platform],
                                   active[i].platform_user_id, message, TRUE)]]
    /\ last' = Returned("send_welcome_message", <<user_id>>, None)
    /\ UNCHANGED <<users, user_platforms, user_preferences, opportunities,
                   subscriptions, notifications, deleted, reactivated>>
    /\ UNCHANGED runtime

-----------------------------------------------------------------------------
(* Specifications *)

UserIds == 1..MaxUsers
OppIds == 1..MaxOpps

\* Users, their platform bindings, and the fan-out of alerts and welcome
\* messages over them.
DispatchNext ==
    \/ create_user("Ann")
    \/ \E u \in UserIds, p \in Platforms, a \in Addresses :
           add_user_platform(u, p, a)
    \/ \E u \in UserIds : create_opportunity(OppGrant, u)
    \/ \E o \in OppIds : delete_opportunity(o)
    \/ \E o \in OppIds, ids \in UserIdLists : send_opportunity_alert(o, ids)
    \/ \E u \in UserIds : send_welcome_message(u)

SpecDispatch == Init /\ [][DispatchNext]_vars

\* Subscriptions and the alerts sent to an opportunity's subscribers.
SubscribersNext ==
    \/ create_user("Ann")
    \/ \E u \in UserIds : create_opportunity(OppGrant, u)
    \/ \E o \in OppIds : delete_opportunity(o)
    \/ \E o \in OppIds, u \in UserIds : subscribe_user(o, u)
    \/ \E o \in OppIds, u \in UserIds : unsubscribe_user(o, u)
    \/ \E o \in OppIds, ids \in UserIdLists : send_opportunity_alert(o, ids)

SpecSubscribers == Init /\ [][SubscribersNext]_vars

\* The catalog: opportunities, preferences, search and recommendations.
CatalogNext ==
    \/ create_user("Ann")
    \/ \E p \in UserPreferencesCreate : create_user_preferences(1, p)
    \/ \E p \in OpportunityCreate : create_opportunity(p, 1)
    \/ \E o \in OppIds, d \in OpportunityUpdate : update_opportunity(o, d)
    \/ \E o \in OppIds : delete_opportunity(o)
    \/ \E o \in OppIds : approve_opportunity(o)
    \/ \E o \in OppIds : reject_opportunity(o, "spam")
    \/ \E f \in OpportunitySearch : search_opportunities(f)
    \/ \E u \in UserIds, n \in Limits : get_user_recommendations(u, n)

SpecCatalog == Init /\ [][CatalogNext]_vars

\* Soft deletion against every operation that might undo it.
SoftDeleteNext ==
    \/ create_user("Ann")
    \/ create_opportunity(OppGrant, 1)
    \/ \E o \in OppIds, d \in OpportunityUpdate : update_opportunity(o, d)
    \/ \E o \in OppIds : delete_opportunity(o)
    \/ \E o \in OppIds : approve_opportunity(o)
    \/ \E o \in OppIds : reject_opportunity(o, "spam")
    \/ \E o \in OppIds, u \in UserIds : subscribe_user(o, u)
    \/ \E o \in OppIds : send_opportunity_alert(o, None)
    \/ search_opportunities(NoFilter)
    \/ get_user_recommendations(1, 10)

SpecSoftDelete == Init /\ [][SoftDeleteNext]_vars

\* Concurrent requests on the subscribe / unsubscribe endpoints: each
\* subscribe request is its SELECT, then (other requests permitting) its
\* INSERT.
Requests == {1, 2}

ConcurrentSubscribeNext ==
    \/ create_user("Ann")
    \/ create_opportunity(OppGrant, 1)
    \/ \E r \in Requests, o \in OppIds, u \in UserIds :
           subscribe_user_select(r, o, u)
    \/ \E r \in Requests : subscribe_user_insert(r)
    \/ \E o \in OppIds, u \in UserIds : unsubscribe_user(o, u)

SpecConcurrentSubscribe == Init /\ [][ConcurrentSubscribeNext]_vars

\* The channels and their manager, for every setting of the credentials.
Credentials == [SettingNames -> {"", "secret"}]
Recipients == Addresses \cup {"ann"}
Outcomes == {"ok", "StartError"}
Answers == {"None", "PlatformError"}

InitBots ==
    /\ EmptyStore
    /\ settings \in Credentials
    /\ channels = [p \in Platforms |-> NewBot(p)]
    /\ bot_manager = [bots |-> <<>>, tasks |-> [p \in Platforms |-> "none"]]

BotsNext ==
    \/ start_all_bots
    \/ \E p \in Platforms : start_task_begin(p)
    \/ \E p \in Platforms, outcome \in Outcomes : start_task_finish(p, outcome)
    \/ \E p \in Platforms, outcome \in Outcomes : start(p, outcome)
    \/ \E p \in Platforms : stop(p)
    \/ stop_all_bots
    \/ \E p \in Platforms, to \in Recipients, answer \in Answers :
           channel_send_message(p, to, answer)
    \/ \E payload \in Payloads : telegram_webhook(payload)
    \/ \E payload \in Payloads : discord_webhook(payload)
    \/ \E payload \in Payloads : whatsapp_webhook(payload)

SpecBots == InitBots /\ [][BotsNext]_vars

\* send_welcome_message over the users a caller may pass: one user whose
\* bindings are any list of up to MaxBindings bindings, active or not.
BindingTables ==
    UNION {{[i \in 1..n |->
                [id |-> i, user_id |-> 1, platform |-> f[i][1],
                 platform_user_id |-> "100", is_active |-> f[i][2]]] :
            f \in [1..n -> Platforms \X BOOLEAN]} : n \in 0..MaxBindings}

InitWelcome ==
    /\ users = <<[id |-> 1, first_name |-> "Ann", is_active |-> TRUE]>>
    /\ user_platforms \in BindingTables
    /\ user_preferences = <<>>
    /\ opportunities = <<>>
    /\ subscriptions = <<>>
    /\ notifications = <<>>
    /\ sends = <<>>
    /\ deleted = {}
    /\ reactivated = {}
    /\ last = NoCall
    /\ requests = {}
    /\ settings = [name \in SettingNames |-> ""]
    /\ channels = [p \in Platforms |-> NewBot(p)]
    /\ bot_manager = [bots |-> <<>>, tasks |-> [p \in Platforms |-> "none"]]

WelcomeNext == \E u \in UserIds : send_welcome_message(u)

SpecWelcome == InitWelcome /\ [][WelcomeNext]_vars

\* Platform bindings and the lookup of a user by a channel address.
BindingsNext ==
    \/ create_user("Ann")
    \/ \E u \in UserIds, p \in Platforms, a \in Addresses :
           add_user_platform(u, p, a)
    \/ \E p \in Platforms, a \in Addresses : get_user_by_platform(p, a)

SpecBindings == Init /\ [][BindingsNext]_vars

\* The preference endpoints of a user: create (POST) and update (PUT).
PreferencesNext ==
    \/ create_user("Ann")
    \/ \E u \in UserIds, p \in UserPreferencesCreate :
           create_user_preferences(u, p)
    \/ \E u \in UserIds, d \in UserPreferencesUpdate :
           update_user_preferences(u, d)

SpecPreferences == Init /\ [][PreferencesNext]_vars

\* The alert text of the opportunities a user may create.
FormatNext ==
    \/ create_user("Ann")
    \/ \E p \in FormatInputs : create_opportunity(p, 1)
    \/ \E o \in OppIds : format_message(o)

SpecFormat == Init /\ [][FormatNext]_vars

\* The Delivery Log under the operations of the services: two users, one
\* opportunity, and any log of up to MaxNotifications records of theirs,
\* read or unread.
NotificationTables ==
    UNION {{[i \in 1..n |->
                [id |-> i, user_id |-> f[i][1], opportunity_id |-> 1,
                 platform |-> f[i][2], message |-> <<"Welcome">>,
                 is_read |-> f[i][3]]] :
            f \in [1..n -> UserIds \X {"telegram", "discord"} \X BOOLEAN]} :
           n \in 0..MaxNotifications}

NotificationIdLists == {<<>>, <<1>>, <<2>>, <<1, 2>>, <<2, 3>>}

InitDeliveryLog ==
    /\ users = [i \in UserIds |->
                   [id |-> i, first_name |-> "Ann", is_active |-> TRUE]]
    /\ user_platforms = <<>>
    /\ user_preferences = <<>>
    /\ opportunities =
           <<[id |-> 1, title |-> OppGrant.title,
              description |-> OppGrant.description,
              opportunity_type |-> OppGrant.opportunity_type,
              organization |-> OppGrant.organization, url |-> OppGrant.url,
              deadline |-> OppGrant.deadline, location |-> OppGrant.location,
              language |-> OppGrant.language, tags |-> OppGrant.tags,
              is_active |-> TRUE, created_by |-> 1, created_at |-> 1]>>
    /\ subscriptions = <<>>
    /\ notifications \in NotificationTables
    /\ sends = <<>>
    /\ deleted = {}
    /\ reactivated = {}
    /\ last = NoCall
    /\ requests = {}
    /\ settings = [name \in SettingNames |-> ""]
    /\ channels = [p \in Platforms |-> NewBot(p)]
    /\ bot_manager = [bots |-> <<>>, tasks |-> [p \in Platforms |-> "none"]]

DeliveryLogNext ==
    \/ \E u \in UserIds, ids \in NotificationIdLists :
           mark_notifications_read(u, ids)
    \/ \E u \in UserIds : delete_user(u)
    \/ \E o \in OppIds : delete_opportunity(o)
    \/ \E o \in OppIds, ids \in UserIdLists : send_opportunity_alert(o, ids)
    \/ \E u \in UserIds : send_welcome_message(u)

SpecDeliveryLog == InitDeliveryLog /\ [][DeliveryLogNext]_vars

\* Alert requests in flight on the event loop.  A request whose SELECT has
\* completed is resumed by the loop, hence the weak fairness of the resume
\* step; nothing obliges a client to send a request.
AlertProgressNext ==
    \/ create_user("Ann")
    \/ \E u \in UserIds : add_user_platform(u, "telegram", "100")
    \/ create_opportunity(OppGrant, 1)
    \/ \E r \in Requests, o \in OppIds, ids \in UserIdLists :
           send_opportunity_alert_select(r, o, ids)
    \/ \E r \in Requests : send_opportunity_alert_resume(r)

SpecAlertProgress ==
    /\ Init
    /\ [][AlertProgressNext]_vars
    /\ WF_vars(\E r \in Requests : send_opportunity_alert_resume(r))

\* Messages routed through the bot manager: the platform names a caller
\* may pass (one of them never managed) and the binding lists of up to
\* MaxRouted entries, each with the answer its platform call would get.
PlatformNames == {"telegram", "whatsapp", "sms"}
MaxRouted == 2
RoutedBindings ==
    UNION {[1..n -> [platform : PlatformNames, platform_user_id : {"100"},
                     answer : Answers]] : n \in 0..MaxRouted}

RoutingNext ==
    \/ start_all_bots
    \/ \E p \in Platforms : start_task_begin(p)
    \/ \E p \in Platforms, outcome \in Outcomes : start_task_finish(p, outcome)
    \/ \E to \in Recipients, p \in PlatformNames, answer \in Answers :
           send_message_to_user(to, p, answer)
    \/ \E bindings \in RoutedBindings : send_message_to_all_platforms(bindings)

SpecRouting == InitBots /\ [][RoutingNext]_vars

-----------------------------------------------------------------------------
(* Claims about the Notification Dispatcher *)

IsAlert == last.op = "send_opportunity_alert"
AlertOpp == last.args[1]
AlertUserIds == last.args[2]

ActiveBindings(user_id) == SelectSeq(platforms(user_id), LAMBDA b : b.is_active)

\* The users an explicit list names (those that exist).
ExplicitUsers(user_ids) == {u \in Range(user_ids[1]) : Exists(users, u)}

\* The users that hold an active Subscription to the opportunity.
ActiveSubscribers(opportunity_id) ==
    {subscriptions[i].user_id :
        i \in {k \in 1..Len(subscriptions) :
                  /\ subscriptions[k].opportunity_id = opportunity_id
                  /\ subscriptions[k].is_active}}

\* C1 (dispatch isolation): an alert for an existing opportunity that names
\* a user with two active bindings on different channels returns success,
\* and a send is attempted on each of that user's active bindings even
\* though a send fails.
C1_DispatchIsolation ==
    \A u \in UserIds :
        (/\ IsAlert
         /\ Exists(opportunities, AlertOpp)
         /\ Truthy(AlertUserIds)
         /\ u \in ExplicitUsers(AlertUserIds)
         /\ \E i, k \in 1..Len(ActiveBindings(u)) :
                ActiveBindings(u)[i].platform # ActiveBindings(u)[k].platform)
        => /\ last.exc = "None"
           /\ last.ret = TRUE
           /\ \A i \in 1..Len(ActiveBindings(u)) :
                  \E k \in 1..Len(sends) :
                      /\ sends[k].platform = ActiveBindings(u)[i].platform
                      /\ sends[k].to = ActiveBindings(u)[i].platform_user_id

\* C2: send_opportunity_alert never raises; it returns True exactly when the
\* opportunity row exists and False otherwise.
C2_AlertReturnsBoolean ==
    IsAlert =>
        /\ last.exc = "None"
        /\ last.ret \in BOOLEAN
        /\ last.ret = Exists(opportunities, AlertOpp)

\* C3 (fail fast): for an opportunity id that does not exist or whose row is
\* inactive, send_opportunity_alert returns False, makes no channel send and
\* appends no Delivery Record.
C3_FailFast ==
    (/\ IsAlert
     /\ \/ ~Exists(opportunities, AlertOpp)
        \/ ~opportunities[AlertOpp].is_active)
    => /\ last.exc = "None"
       /\ last.ret = FALSE
       /\ sends = <<>>
       /\ Len(notifications) = last.pre_notifications

\* C4 (target resolution): for an existing opportunity the users the call
\* targets are the explicit ones when a non-empty list is given, and the
\* users with an ACTIVE Subscription when no list is given.
C4_TargetResolution ==
    (/\ IsAlert
     /\ Exists(opportunities, AlertOpp)
     /\ AlertUserIds = None \/ Truthy(AlertUserIds))
    => /\ last.exc = "None"
       /\ last.targets # None
       /\ Range(last.targets[1]) =
              IF Truthy(AlertUserIds) THEN ExplicitUsers(AlertUserIds)
              ELSE ActiveSubscribers(AlertOpp)

\* The number of active bindings of the users in a set.
RECURSIVE CountActiveBindings(_)
CountActiveBindings(us) ==
    IF us = {} THEN 0
    ELSE LET u == CHOOSE x \in us : TRUE
         IN Len(ActiveBindings(u)) + CountActiveBindings(us \ {u})

\* C5: one alert call for an existing opportunity and an explicit user list
\* appends exactly one Delivery Record per (target user, active binding),
\* in the order of the sends, each carrying the send's channel and message.
C5_OneRecordPerSend ==
    (/\ IsAlert
     /\ Exists(opportunities, AlertOpp)
     /\ Truthy(AlertUserIds))
    => /\ Len(notifications) - last.pre_notifications =
              CountActiveBindings(ExplicitUsers(AlertUserIds))
       /\ Len(sends) = Len(notifications) - last.pre_notifications
       /\ \A i \in 1..Len(sends) :
              LET n == notifications[last.pre_notifications + i]
              IN /\ n.platform = sends[i].platform
                 /\ n.message = sends[i].message
                 /\ n.opportunity_id = AlertOpp

-----------------------------------------------------------------------------
(* Claims about the Matching Engine and the Catalog *)

IsRecommend == last.op = "get_user_recommendations"
IsSearch == last.op = "search_opportunities"
Result == last.ret
RecUser == last.args[1]
RecLimit == last.args[2]

ActiveOpps == {i \in 1..Len(opportunities) : opportunities[i].is_active}

HasPrefs(u) == \E i \in 1..Len(user_preferences) : user_preferences[i].user_id = u
PrefsOf(u) ==
    user_preferences[CHOOSE i \in 1..Len(user_preferences) :
                         user_preferences[i].user_id = u]

NoDuplicates(r) == \A i, k \in 1..Len(r) : i # k => r[i] # r[k]

MostRecentFirst(r) ==
    \A i, k \in 1..Len(r) :
        i < k => opportunities[r[i]].created_at >= opportunities[r[k]].created_at

\* r lists the `limit` most recently created members of S, most recent
\* first (all of S when S has fewer).
MostRecentOf(r, S, limit) ==
    /\ Range(r) \subseteq S
    /\ NoDuplicates(r)
    /\ MostRecentFirst(r)
    /\ Len(r) = IF Cardinality(S) < limit THEN Cardinality(S) ELSE limit
    /\ \A x \in S \ Range(r), y \in Range(r) :
           opportunities[x].created_at <= opportunities[y].created_at

SharesTag(row, interests) == Range(row.tags) \cap Range(interests) # {}

MentionsField(row, field) ==
    \/ Contains(Lower(row.title), Lower(field))
    \/ Contains(Lower(row.description), Lower(field))

LocatedIn(row, location) ==
    /\ row.location # None
    /\ Contains(Lower(row.location[1]), Lower(location))

NoPreferencesSet(prefs) ==
    /\ prefs.interests = <<>>
    /\ ~Truthy(prefs.field_of_study)
    /\ ~Truthy(prefs.location)

\* C6 (cold start and ranking): every recommendation list is ordered by
\* creation time, most recent first, without repeats and no longer than
\* `limit`; for a user with no Preference Model (or one that sets nothing)
\* it is exactly the `limit` most recently created active opportunities.
C6_ColdStartRanking ==
    IsRecommend =>
        /\ MostRecentFirst(Result)
        /\ NoDuplicates(Result)
        /\ Len(Result) <= RecLimit
        /\ ~HasPrefs(RecUser) => MostRecentOf(Result, ActiveOpps, RecLimit)
        /\ (HasPrefs(RecUser) /\ NoPreferencesSet(PrefsOf(RecUser))) =>
               MostRecentOf(Result, ActiveOpps, RecLimit)

\* C6 witness: a cold-start call with limit 1 while two active
\* opportunities of different creation times exist, one with tags.
C6_Witness ==
    /\ IsRecommend
    /\ ~HasPrefs(RecUser)
    /\ RecLimit = 1
    /\ Len(Result) = 1
    /\ \E x \in ActiveOpps :
           /\ opportunities[x].created_at < opportunities[Result[1]].created_at
           /\ opportunities[x].tags # <<>>

InterestsAndField(prefs) ==
    /\ prefs.interests # <<>>
    /\ Truthy(prefs.field_of_study)
    /\ ~Truthy(prefs.location)

LocationOnly(prefs) ==
    /\ prefs.interests = <<>>
    /\ ~Truthy(prefs.field_of_study)
    /\ Truthy(prefs.location)

C9_ResultsActive ==
    (IsSearch \/ IsRecommend) =>
        \A i \in 1..Len(Result) : opportunities[Result[i]].is_active

\* C9 witness: a tag search returns some opportunity while an inactive
\* opportunity that carries one of the listed tags exists.
C9_Witness ==
    /\ IsSearch
    /\ Truthy(last.args[1].tags)
    /\ Result # <<>>
    /\ \E x \in 1..Len(opportunities) :
           /\ ~opportunities[x].is_active
           /\ SharesTag(opportunities[x], last.args[1].tags[1])

\* C10 as claimed (soft delete is permanent): no search or recommendation
\* result holds an opportunity for which delete_opportunity has succeeded.
C10_SoftDeletePermanent ==
    (IsSearch \/ IsRecommend) =>
        \A i \in 1..Len(Result) : Result[i] \notin deleted

\* C10 amended: a search or recommendation result holds a soft-deleted
\* opportunity only if, since the delete, approve_opportunity or an
\* update_opportunity setting is_active to true has acted on it.
C10_DeletedUntilReactivated ==
    (IsSearch \/ IsRecommend) =>
        \A i \in 1..Len(Result) :
            Result[i] \in deleted => Result[i] \in reactivated

\* C10 witness: a search returns an opportunity while another one, soft
\* deleted and since then updated, rejected or subscribed to but not set
\* active again, stays out of the result.
C10_Witness ==
    /\ IsSearch
    /\ Result # <<>>
    /\ \E x \in deleted \ reactivated :
           /\ x \notin Range(Result)
           /\ \E i \in 1..Len(subscriptions) : subscriptions[i].opportunity_id = x

-----------------------------------------------------------------------------
(* Claims about subscriptions *)

IsSubscribe == last.op = "subscribe_user"
SubOpp == last.args[1]
SubUser == last.args[2]

\* The rows of a (user, opportunity) pair in a subscriptions table.
PairRows(table, user_id, opportunity_id) ==
    SelectSeq(table, LAMBDA r : r.user_id = user_id
                                /\ r.opportunity_id = opportunity_id)

ActivePairRows(table, user_id, opportunity_id) ==
    SelectSeq(PairRows(table, user_id, opportunity_id), LAMBDA r : r.is_active)

\* C11 (subscribing twice): a subscribe_user call for a pair that already
\* holds an active Subscription returns None and leaves the pair's rows as
\* they were; a call that succeeds returns the Subscription it inserted,
\* the only row of the pair.
C11_SubscribeTwice ==
    IsSubscribe =>
        /\ ActivePairRows(last.pre_subscriptions, SubUser, SubOpp) # <<>> =>
               /\ last.exc = "None"
               /\ last.ret = None
               /\ PairRows(subscriptions, SubUser, SubOpp) =
                      PairRows(last.pre_subscriptions, SubUser, SubOpp)
        /\ (last.exc = "None" /\ last.ret # None) =>
               /\ PairRows(last.pre_subscriptions, SubUser, SubOpp) = <<>>
               /\ Ids(PairRows(subscriptions, SubUser, SubOpp)) = last.ret
               /\ subscriptions[last.ret[1]].is_active

\* C11 witness: a second subscribe call on an actively subscribed pair has
\* returned None.
C11_Witness ==
    /\ IsSubscribe
    /\ ActivePairRows(last.pre_subscriptions, SubUser, SubOpp) # <<>>
    /\ last.ret = None
    /\ Len(PairRows(subscriptions, SubUser, SubOpp)) = 1

\* C12 (re-subscribing): a subscribe_user call for a pair whose only
\* Subscription had been deactivated by unsubscribe_user leaves exactly one
\* active row for the pair, creates no second row, and the user is listed
\* by get_user_subscriptions and get_opportunity_subscribers again.
C12_Resubscribe ==
    (/\ IsSubscribe
     /\ PairRows(last.pre_subscriptions, SubUser, SubOpp) # <<>>
     /\ ActivePairRows(last.pre_subscriptions, SubUser, SubOpp) = <<>>)
    => /\ Len(ActivePairRows(subscriptions, SubUser, SubOpp)) = 1
       /\ Len(PairRows(subscriptions, SubUser, SubOpp)) =
              Len(PairRows(last.pre_subscriptions, SubUser, SubOpp))
       /\ \E id \in Range(get_user_subscriptions(SubUser)) :
              subscriptions[id].opportunity_id = SubOpp
       /\ \E id \in Range(get_opportunity_subscribers(SubOpp)) :
              subscriptions[id].user_id = SubUser

\* C13 (uniqueness under interleaving): at most one active Subscription
\* row exists per (user, opportunity), whatever the interleaving of
\* subscribe and unsubscribe requests.
C13_OneActivePerPair ==
    \A u \in UserIds, o \in OppIds :
        Len(ActivePairRows(subscriptions, u, o)) <= 1

\* C20 (not-found on subscribe): a subscribe_user call naming a user or an
\* opportunity that does not exist raises nothing, returns the not-found
\* signal (None) and inserts no row.
C20_SubscribeNotFound ==
    (/\ IsSubscribe
     /\ ~Exists(users, SubUser) \/ ~Exists(opportunities, SubOpp))
    => /\ last.exc = "None"
       /\ last.ret = None
       /\ subscriptions = last.pre_subscriptions

-----------------------------------------------------------------------------
(* Claims about search *)

Filter == last.args[1]

\* The row satisfies every filter the search supplies, read as the claim
\* reads them: substring, exact match, shared tag.
Satisfies(row, f) ==
    /\ Truthy(f.query) =>
           \/ Contains(Lower(row.title), Lower(f.query[1]))
           \/ Contains(Lower(row.description), Lower(f.query[1]))
           \/ Contains(Lower(row.organization), Lower(f.query[1]))
    /\ f.opportunity_type # None => row.opportunity_type = f.opportunity_type[1]
    /\ Truthy(f.tags) => SharesTag(row, f.tags[1])
    /\ Truthy(f.location) => LocatedIn(row, f.location[1])
    /\ Truthy(f.language) => row.language = f.language[1]

\* C14: a search result lists, without repeats, active opportunities that
\* satisfy every supplied filter, as many of them as offset and limit
\* leave; a text query with no other filter, offset 0 and room under the
\* limit returns every active opportunity whose title contains it.
C14_SearchExact ==
    IsSearch =>
        LET matching == {x \in ActiveOpps : Satisfies(opportunities[x], Filter)}
            rest == Cardinality(matching) - Filter.offset
        IN /\ Range(Result) \subseteq matching
           /\ NoDuplicates(Result)
           /\ Len(Result) = IF rest < 0 THEN 0
                             ELSE IF rest < Filter.limit THEN rest
                             ELSE Filter.limit
           /\ (Truthy(Filter.query) /\ Filter.offset = 0
                  /\ Cardinality(matching) <= Filter.limit) =>
                  \A x \in ActiveOpps :
                      Contains(Lower(opportunities[x].title),
                               Lower(Filter.query[1]))
                      => x \in Range(Result)

-----------------------------------------------------------------------------
(* Claims about the channels *)

\* The settings a channel needs.
CredentialsOf(platform) ==
    CASE platform = "telegram" -> {"TELEGRAM_BOT_TOKEN"}
      [] platform = "discord" -> {"DISCORD_BOT_TOKEN"}
      [] platform = "whatsapp" ->
             {"WHATSAPP_ACCOUNT_SID", "WHATSAPP_AUTH_TOKEN",
              "WHATSAPP_PHONE_NUMBER"}

AllPresent(platform) == \A n \in CredentialsOf(platform) : settings[n] # ""

Registered == Range(bot_manager.bots)

\* C15 (channel send never raises): send_message on any channel returns a
\* boolean and raises nothing; it returns True only when the channel had a
\* session and the platform call went through for a valid recipient, and
\* False when the channel was never started, the recipient is invalid or
\* the platform call failed.
C15_SendNeverRaises ==
    last.op = "send_message" =>
        LET platform == last.args[1]
            to == last.args[2]
            answer == last.args[3]
            started == last.pre_channels[platform].session # None
            valid == platform = "discord" => to \in Addresses
        IN /\ last.exc = "None"
           /\ last.ret \in BOOLEAN
           /\ last.ret = (started /\ valid /\ answer = "None")

\* C15 witness: a started Discord channel was asked to send to a recipient
\* that is not a number and returned False.
C15_Witness ==
    /\ last.op = "send_message"
    /\ last.args[1] = "discord"
    /\ last.args[2] \notin Addresses
    /\ last.pre_channels["discord"].session = Some("running")
    /\ last.ret = FALSE

\* C16 (missing credentials disable only their own channel): start_all_bots
\* returns without error having registered exactly the channels whose
\* credentials are all present, each of them started (its start() awaited
\* or running as a task) and the others left alone; start() on a channel
\* with a credential missing changes nothing; such a channel never holds a
\* session, so it cannot send.
C16_MissingCredentials ==
    /\ last.op = "start_all_bots" =>
           /\ last.exc = "None"
           /\ Registered = {p \in Platforms : AllPresent(p)}
           /\ \A p \in Platforms :
                  IF AllPresent(p)
                  THEN \/ p = "whatsapp" /\ channels[p].session # None
                       \/ p # "whatsapp" /\ bot_manager.tasks[p] # "none"
                  ELSE /\ bot_manager.tasks[p] = "none"
                       /\ channels[p] = last.pre_channels[p]
    /\ (last.op = "start" /\ ~AllPresent(last.args[1])) =>
           /\ last.exc = "None"
           /\ channels[last.args[1]] = last.pre_channels[last.args[1]]
    /\ \A p \in Platforms :
           ~AllPresent(p) =>
               /\ channels[p].session = None
               /\ ~send_message(channels[p], "100", <<"text">>, TRUE)
               /\ p \notin Registered

\* C16 witness: start_all_bots ran with the Telegram token set, no Discord
\* token and only some of the WhatsApp credentials, and registered
\* Telegram alone.
C16_Witness ==
    /\ last.op = "start_all_bots"
    /\ bot_manager.bots = <<"telegram">>
    /\ settings.WHATSAPP_ACCOUNT_SID # ""
    /\ settings.WHATSAPP_AUTH_TOKEN # ""
    /\ settings.WHATSAPP_PHONE_NUMBER = ""

\* C17 (stop is safe in every lifecycle state): stop() on a channel raises
\* nothing; stop_all_bots raises nothing and leaves no registered Telegram
\* or Discord channel with a session that was not stopped.
C17_StopSafe ==
    /\ last.op = "stop" => last.exc = "None"
    /\ last.op = "stop_all_bots" =>
           /\ last.exc = "None"
           /\ \A p \in Registered \ {"whatsapp"} :
                  channels[p].session \in {None, Some("stopped")}

\* C18: send_welcome_message makes one send per active binding of the
\* user, in the order of the bindings and none for an inactive one, goes on
\* after a send that failed, and leaves the Delivery Log as it was.
C18_WelcomeFanOut ==
    last.op = "send_welcome_message" =>
        LET active == ActiveBindings(last.args[1])
        IN /\ last.exc = "None"
           /\ Len(sends) = Len(active)
           /\ \A i \in 1..Len(active) :
                  /\ sends[i].platform = active[i].platform
                  /\ sends[i].to = active[i].platform_user_id
           /\ Len(notifications) = last.pre_notifications

\* C18 witness: the user has an inactive binding and two active ones after
\* it; the first send failed and the second was still made.
C18_Witness ==
    /\ last.op = "send_welcome_message"
    /\ Len(platforms(last.args[1])) = 3
    /\ ~platforms(last.args[1])[1].is_active
    /\ Len(sends) = 2
    /\ ~sends[1].ok
    /\ sends[1].platform # sends[2].platform

\* C19 (webhook replies): the Telegram and Discord endpoints answer every
\* payload with status 200 and the success marker; the WhatsApp endpoint
\* answers every payload with status 200 and a TwiML reply, the apology
\* when handling the message failed.
C19_WebhookReplies ==
    /\ last.op \in {"telegram_webhook", "discord_webhook"} => last.ret = OK
    /\ last.op = "whatsapp_webhook" =>
           /\ last.ret.status = 200
           /\ last.ret.body.kind = "twiml"
           /\ last.args[1] = FormFile => last.ret.body.value = "Sorry"

-----------------------------------------------------------------------------
(* Claims about users, bindings and preferences *)

\* The active binding rows of a (platform, address) pair.
ActiveBindingsOf(platform, platform_user_id) ==
    SelectSeq(user_platforms,
              LAMBDA b : /\ b.platform = platform
                         /\ b.platform_user_id = platform_user_id
                         /\ b.is_active)

\* C21 (binding uniqueness): after any sequence of add_user_platform calls
\* each (channel kind, address) pair has at most one active binding, so no
\* pair is shared by two users, and get_user_by_platform resolves a pair
\* to at most one user without raising.
C21_BindingUniqueness ==
    /\ \A p \in Platforms, a \in Addresses :
           Len(ActiveBindingsOf(p, a)) <= 1
    /\ last.op = "get_user_by_platform" => last.exc = "None"

IsPreferenceSet ==
    last.op \in {"create_user_preferences", "update_user_preferences"}

\* C22 (preference lifecycle): a preference-set call for an existing user
\* never fails, whether or not the user already has a Preference Model;
\* after it the user has exactly one Preference Model, whose named fields
\* hold the values of the call.
C22_PreferenceLifecycle ==
    (IsPreferenceSet /\ Exists(users, last.args[1])) =>
        /\ last.exc = "None"
        /\ last.ret # None
        /\ Len(PreferenceRows(last.args[1])) = 1
        /\ last.op = "create_user_preferences" =>
               \A f \in {"interests", "field_of_study", "location"} :
                   PreferenceRows(last.args[1])[1][f] = last.args[2][f]
        /\ last.op = "update_user_preferences" =>
               \A i \in 1..Len(last.args[2]) :
                   PreferenceRows(last.args[1])[1][last.args[2][i][1]] =
                       last.args[2][i][2]

-----------------------------------------------------------------------------
(* Claims about the alert text and the Delivery Log *)

IsFormat == last.op = "_format_opportunity_message"

\* C23 (alert message format): the formatted alert holds the description
\* cut to at most 200 characters, followed by the ellipsis marker exactly
\* when the description was longer than 200 characters, and the first 5
\* tags at most, in their order (none when the tag list is empty);
\* formatting the opportunity again gives the same text.
C23_AlertFormat ==
    IsFormat =>
        LET opportunity == opportunities[last.args[1]]
            message == last.ret[1]
        IN /\ message.description =
                  IF Len(opportunity.description) > 200
                  THEN SubSeq(opportunity.description, 1, 200) \o Ellipsis
                  ELSE opportunity.description
           /\ Len(message.tags) <= 5
           /\ \A i \in 1..Len(message.tags) :
                  message.tags[i] = opportunity.tags[i]
           /\ Len(opportunity.tags) <= 5 => message.tags = opportunity.tags
           /\ message = format_opportunity_message(opportunity)

\* C24 (Delivery Log append-only): no service operation, the soft delete
\* of a user or of an opportunity included, removes a Delivery Record or
\* changes its user, opportunity, channel or message; the read flag of a
\* record changes only by mark_notifications_read(user, ids), only on a
\* record of that user whose id is listed, and only to read.
C24_AppendOnly ==
    [][/\ Len(notifications') >= Len(notifications)
       /\ \A i \in 1..Len(notifications) :
              /\ notifications'[i].id = notifications[i].id
              /\ notifications'[i].user_id = notifications[i].user_id
              /\ notifications'[i].opportunity_id =
                     notifications[i].opportunity_id
              /\ notifications'[i].platform = notifications[i].platform
              /\ notifications'[i].message = notifications[i].message
              /\ notifications'[i].is_read # notifications[i].is_read =>
                     /\ last'.op = "mark_notifications_read"
                     /\ notifications[i].user_id = last'.args[1]
                     /\ notifications[i].id \in Range(last'.args[2])
                     /\ notifications'[i].is_read]_vars

\* C24 witness: after soft-deleting a user and the opportunity, a
\* mark_notifications_read call listing two records has marked the one of
\* its user and left the listed record of the other user unread.
C24_Witness ==
    /\ last.op = "mark_notifications_read"
    /\ last.args[2] = <<1, 2>>
    /\ Len(notifications) = 2
    /\ notifications[1].user_id = last.args[1]
    /\ notifications[1].is_read
    /\ notifications[2].user_id # last.args[1]
    /\ ~notifications[2].is_read
    /\ ~users[last.args[1]].is_active
    /\ ~opportunities[1].is_active

\* C25 (bounded impact of a stuck channel): an alert request in flight for
\* an existing opportunity leads to the return of that call with success,
\* all the sends of its targets attempted, whatever a single send does.
C25_StuckChannelBounded ==
    \A r \in Requests, o \in OppIds, ids \in UserIdLists :
        (/\ [request |-> r, opportunity_id |-> o, user_ids |-> ids]
                \in requests
         /\ Exists(opportunities, o))
        ~> (/\ last.op = "send_opportunity_alert"
            /\ last.args = <<o, ids>>
            /\ last.exc = "None"
            /\ last.ret = TRUE)

\* C26 (sends through channels that were never started): every send of a
\* welcome message or of an alert returns False; an alert for an existing
\* opportunity that names users makes one such send per active binding of
\* those users and nevertheless appends one Delivery Record per send.
C26_UnstartedChannels ==
    /\ last.op \in {"send_welcome_message", "send_opportunity_alert"} =>
           \A i \in 1..Len(sends) : ~sends[i].ok
    /\ (/\ IsAlert
        /\ Exists(opportunities, AlertOpp)
        /\ Truthy(AlertUserIds))
       => /\ Len(sends) = CountActiveBindings(ExplicitUsers(AlertUserIds))
          /\ Len(notifications) = last.pre_notifications + Len(sends)

-----------------------------------------------------------------------------
(* Claims about unsubscribing, alert targets and the bot manager *)

IsUnsubscribe == last.op = "unsubscribe_user"

\* C27 (unsubscribe): unsubscribe_user returns True exactly when the pair
\* had at least one Subscription row, active or not, when the call began;
\* after the call no row of the pair is active and no other row has
\* changed, so that a repeated call changes nothing and returns True again.
C27_Unsubscribe ==
    IsUnsubscribe =>
        LET o == last.args[1]
            u == last.args[2]
            before == last.pre_subscriptions
        IN /\ last.exc = "None"
           /\ last.ret = (PairRows(before, u, o) # <<>>)
           /\ ActivePairRows(subscriptions, u, o) = <<>>
           /\ Len(subscriptions) = Len(before)
           /\ \A i \in 1..Len(before) :
                  subscriptions[i] =
                      IF before[i].user_id = u /\ before[i].opportunity_id = o
                      THEN [before[i] EXCEPT !.is_active = FALSE]
                      ELSE before[i]
           /\ ActivePairRows(before, u, o) = <<>> => subscriptions = before

\* C27 witness: a repeated unsubscribe call, on a pair whose only row was
\* already inactive, has returned True and left the table as it was.
C27_Witness ==
    /\ IsUnsubscribe
    /\ last.ret = TRUE
    /\ Len(PairRows(last.pre_subscriptions, last.args[2], last.args[1])) = 1
    /\ ActivePairRows(last.pre_subscriptions, last.args[2], last.args[1]) = <<>>
    /\ subscriptions = last.pre_subscriptions

\* The users joined to the Subscription rows of an opportunity.
Subscribers(opportunity_id) ==
    {subscriptions[i].user_id :
        i \in {k \in 1..Len(subscriptions) :
                  subscriptions[k].opportunity_id = opportunity_id}}

\* C28 (empty user list): an alert call for an existing opportunity with
\* an explicit but empty user list resolves its targets as a call with the
\* list omitted does: to the opportunity's subscribers, not to nobody.
C28_EmptyListMeansSubscribers ==
    (/\ IsAlert
     /\ Exists(opportunities, AlertOpp)
     /\ AlertUserIds = Some(<<>>))
    => /\ last.exc = "None"
       /\ last.targets # None
       /\ Range(last.targets[1]) = Subscribers(AlertOpp)
       /\ last.targets[1] = TargetUsers(AlertOpp, None)

\* The entries of a binding list whose platform has a registered bot.
RoutedTo(bindings) ==
    SelectSeq(bindings, LAMBDA b : b.platform \in Registered)

\* C29 (bot manager routing): send_message_to_user returns False without
\* a bot call when the platform has no registered bot, and the result of
\* the bot's send otherwise; send_message_to_all_platforms attempts every
\* listed binding in list order whatever the earlier results were, and
\* returns one boolean per distinct platform listed, the result of the
\* last binding attempted on that platform.
C29_Routing ==
    /\ last.op = "send_message_to_user" =>
           /\ last.exc = "None"
           /\ last.args[2] \notin Registered =>
                  last.ret = FALSE /\ sends = <<>>
           /\ last.args[2] \in Registered =>
                  /\ Len(sends) = 1
                  /\ sends[1].platform = last.args[2]
                  /\ sends[1].to = last.args[1]
                  /\ last.ret = sends[1].ok
    /\ last.op = "send_message_to_all_platforms" =>
           LET bindings == last.args[1]
               routed == RoutedTo(bindings)
           IN /\ last.exc = "None"
              /\ Len(sends) = Len(routed)
              /\ \A i \in 1..Len(routed) :
                     /\ sends[i].platform = routed[i].platform
                     /\ sends[i].to = routed[i].platform_user_id
              /\ DOMAIN last.ret =
                     {bindings[i].platform : i \in 1..Len(bindings)}
              /\ \A p \in DOMAIN last.ret :
                     /\ last.ret[p] \in BOOLEAN
                     /\ p \notin Registered => last.ret[p] = FALSE
                     /\ p \in Registered =>
                            \E i \in 1..Len(sends) :
                                /\ sends[i].platform = p
                                /\ \A k \in (i + 1)..Len(sends) :
                                       sends[k].platform # p
                                /\ last.ret[p] = sends[i].ok

\* C29 witness: two bindings of one registered platform were routed, the
\* first send went through, the second failed and gave the platform's
\* entry.
C29_Witness ==
    /\ last.op = "send_message_to_all_platforms"
    /\ Len(last.args[1]) = 2
    /\ Len(sends) = 2
    /\ sends[1].platform = sends[2].platform
    /\ sends[1].ok
    /\ ~sends[2].ok
    /\ last.ret[sends[1].platform] = FALSE

=============================================================================
